---------------------------- MODULE Spec2Model ----------------------------
(***************************************************************************)
(* A model of nvidia_libs_test/cudnn_util.cc: the device-memory budget,    *)
(* the enumeration and search of convolution algorithms, the direction     *)
(* dispatch of the workspace query and of RunConvolution, the ownership of *)
(* cuDNN handles and device buffers in CreateConvolution, and the ordering *)
(* of device work against host reads in the printing utilities.            *)
(*                                                                         *)
(* Byte counts are size_t values.  The model keeps size_t arithmetic       *)
(* modulo 2^SizeBits with a width scaled down from 64 bits, large enough   *)
(* for every amount the model allocates.                                   *)
(***************************************************************************)
EXTENDS Integers, Sequences, FiniteSets, TLC

(***************************************************************************)
(* Bounds of the model.                                                    *)
(***************************************************************************)
SizeBits == 24
DeviceTotalMB == 2
MaxFlagMB == 2
MaxBuffers == 1
MaxAllocChunks == 2
DeviceCount == 1

(***************************************************************************)
(* Program constants.                                                      *)
(***************************************************************************)
MegabyteShift == 20

\* The width of int, the flag's type, scaled like SizeBits.
FlagBits == 22

SizeMod == 2 ^ SizeBits
ChunkBytes == 2 ^ (MegabyteShift - 1)
DeviceTotalBytes == DeviceTotalMB * (2 ^ MegabyteShift)
BufferIds == 1 .. MaxBuffers
AllocSizes == { c * ChunkBytes : c \in 0 .. MaxAllocChunks }
FlagValues == (0 - MaxFlagMB) .. MaxFlagMB
DeviceIds == 0 .. DeviceCount
NoBuffer == 0 - 1
NoValue == 0 - 1
NoCall == [fn |-> "none"]

VARIABLES
    device_memory_limit_bytes, \* the file-scope size_t set by the validator
    allocated_bytes,           \* GetAllocatedDeviceMemoryBytes(): the ledger
    device_buffers,            \* live DeviceMemory blocks: id -> size
    aborted,                   \* a CHECK or LOG(FATAL) ended the process
    report_count,              \* times the one-time environment report ran
    last_call,                 \* the latest budget query and what it returned
    enumeration,               \* GetSupportedConvolutionAlgos: its loop state
    find,                      \* FindConvolutionAlgo: its position and result
    size_call,                 \* the latest GetWorkspaceSize call
    run_call,                  \* the latest RunConvolution call
    natives,                   \* every native handle, descriptor and buffer made
    owners,                    \* each owning variable -> the native it holds
    create,                    \* CreateConvolution: its position and result
    device_queue,              \* device work issued and not yet complete
    events,                    \* reads of buffers, with what was pending then
    transfer,                  \* GetTensorDebugString / ConvertAndTransformTensor
    descs,                     \* the caller's descriptor variables
    build,                     \* the latest descriptor build call
    equal_call,                \* the latest descriptor comparison
    data_call                  \* the latest element-count or conversion call

budgetVars == << device_memory_limit_bytes, allocated_bytes, device_buffers,
                 aborted, report_count, last_call >>
algoVars == << enumeration, find >>
runVars == << size_call, run_call >>
createVars == << natives, owners, create >>
transferVars == << device_queue, events, transfer >>
buildVars == << descs, build, equal_call >>
dataVars == << data_call >>

(***************************************************************************)
(* size_t arithmetic.                                                      *)
(***************************************************************************)
SizeSub(a, b) == (a - b) % SizeMod
SizeMax(a, b) == IF a < b THEN b ELSE a
Abs(x) == IF x < 0 THEN 0 - x ELSE x

(***************************************************************************)
(* GetAvailableDeviceMemoryBytes, as a function of the limit and of the    *)
(* value GetAllocatedDeviceMemoryBytes() returns when it is called.        *)
(***************************************************************************)
AvailableWrapping(limit, allocated) == SizeSub(limit, allocated)

GetAvailableDeviceMemoryBytes(limit, allocated) ==
    SizeSub(SizeMax(limit, allocated), allocated)

(***************************************************************************)
(* GetWorkspaceLimit: the result for a config whose workspace oneof is     *)
(* set (has_limit) to workspace_limit, when `available` bytes are free.    *)
(***************************************************************************)
WorkspaceLimitRejectingEqual(has_limit, workspace_limit, available) ==
    IF ~has_limit
    THEN [ok |-> TRUE, value |-> available]
    ELSE IF workspace_limit >= available
         THEN [ok |-> FALSE, value |-> NoValue]
         ELSE [ok |-> TRUE, value |-> workspace_limit]

GetWorkspaceLimit(has_limit, workspace_limit, available) ==
    IF ~has_limit
    THEN [ok |-> TRUE, value |-> available]
    ELSE IF workspace_limit > available
         THEN [ok |-> FALSE, value |-> NoValue]
         ELSE [ok |-> TRUE, value |-> workspace_limit]

(***************************************************************************)
(* The flag validator that initialises device_memory_limit_bytes.          *)
(***************************************************************************)
FreeDeviceBytes == DeviceTotalBytes - allocated_bytes

\* A two's-complement integer of the given width holding x.
SignedWrap(x, bits) ==
    LET m == x % (2 ^ bits)
    IN IF m >= 2 ^ (bits - 1) THEN m - 2 ^ bits ELSE m

LimitBytesShiftedAsInt(device_memory_limit_mb) ==
    SignedWrap(device_memory_limit_mb * (2 ^ MegabyteShift), FlagBits)

\* static_cast<ptrdiff_t>(device_memory_limit_mb) << 20
LimitBytes(device_memory_limit_mb) ==
    SignedWrap(device_memory_limit_mb * (2 ^ MegabyteShift), SizeBits)

ReportOnEveryRun(reports) == IF reports < 2 THEN reports + 1 ELSE reports

\* static bool result = [&] { ... LOG(INFO) ...; return true; }(): the
\* initialiser of a function-local static runs on the first pass only.
StaticResultInitializer(reports) == IF reports = 0 THEN 1 ELSE reports

\* Which run in a row this is of the validator with these arguments on a
\* device with this much free memory (1, or 2 for any later one).
RunInARow(device_id, device_memory_limit_mb) ==
    IF /\ last_call.fn = "ValidateDeviceMemoryLimit"
       /\ last_call.device_id = device_id
       /\ last_call.device_memory_limit_mb = device_memory_limit_mb
       /\ last_call.free_bytes = FreeDeviceBytes
    THEN 2 ELSE 1

ValidateDeviceMemoryLimit(device_id, device_memory_limit_mb) ==
    LET limit_bytes == LimitBytes(device_memory_limit_mb)
        ok == ~(device_id >= DeviceCount \/ FreeDeviceBytes < Abs(limit_bytes))
    IN
    /\ ~aborted
    /\ IF ~ok
       THEN /\ aborted' = TRUE
            /\ UNCHANGED << device_memory_limit_bytes, report_count >>
       ELSE /\ device_memory_limit_bytes' =
                   IF limit_bytes < 0
                   THEN (FreeDeviceBytes + limit_bytes) % SizeMod
                   ELSE limit_bytes % SizeMod
            /\ report_count' = StaticResultInitializer(report_count)
            /\ UNCHANGED aborted
    /\ last_call' = [fn |-> "ValidateDeviceMemoryLimit",
                     device_id |-> device_id,
                     device_memory_limit_mb |-> device_memory_limit_mb,
                     free_bytes |-> FreeDeviceBytes,
                     before |-> device_memory_limit_bytes,
                     reports_before |-> report_count,
                     run |-> RunInARow(device_id, device_memory_limit_mb),
                     result |-> ok,
                     limit |-> device_memory_limit_bytes',
                     status |-> IF ok THEN "ok" ELSE "aborted"]
    /\ UNCHANGED << allocated_bytes, device_buffers >>
    /\ UNCHANGED << algoVars, runVars, createVars, buildVars, dataVars, transferVars >>

(***************************************************************************)
(* The device allocator: AllocateDeviceMemory and the release of a         *)
(* DeviceMemory block, with the ledger GetAllocatedDeviceMemoryBytes reads.*)
(***************************************************************************)
AllocateDeviceMemory(id, bytes) ==
    /\ ~aborted
    /\ device_buffers[id] = NoBuffer
    /\ allocated_bytes + bytes <= DeviceTotalBytes
    /\ device_buffers' = [device_buffers EXCEPT ![id] = bytes]
    /\ allocated_bytes' = allocated_bytes + bytes
    /\ UNCHANGED << device_memory_limit_bytes, aborted, report_count, last_call >>
    /\ UNCHANGED << algoVars, runVars, createVars, buildVars, dataVars, transferVars >>

ReleaseDeviceMemory(id) ==
    /\ ~aborted
    /\ device_buffers[id] # NoBuffer
    /\ allocated_bytes' = allocated_bytes - device_buffers[id]
    /\ device_buffers' = [device_buffers EXCEPT ![id] = NoBuffer]
    /\ UNCHANGED << device_memory_limit_bytes, aborted, report_count, last_call >>
    /\ UNCHANGED << algoVars, runVars, createVars, buildVars, dataVars, transferVars >>

(***************************************************************************)
(* A caller asks for the available bytes, or for the workspace limit of a  *)
(* config; last_call keeps what the call read and what it returned.        *)
(***************************************************************************)
CallGetAvailable ==
    /\ ~aborted
    /\ last_call' =
          [fn |-> "GetAvailableDeviceMemoryBytes",
           limit |-> device_memory_limit_bytes,
           allocated |-> allocated_bytes,
           result |-> GetAvailableDeviceMemoryBytes(device_memory_limit_bytes,
                                                    allocated_bytes)]
    /\ UNCHANGED << device_memory_limit_bytes, allocated_bytes, device_buffers,
                    aborted, report_count >>
    /\ UNCHANGED << algoVars, runVars, createVars, buildVars, dataVars, transferVars >>

CallGetWorkspaceLimit(has_limit, workspace_limit) ==
    LET available == GetAvailableDeviceMemoryBytes(device_memory_limit_bytes,
                                                   allocated_bytes)
        r == GetWorkspaceLimit(has_limit, workspace_limit, available)
    IN
    /\ ~aborted
    /\ last_call' =
          [fn |-> "GetWorkspaceLimit",
           limit |-> device_memory_limit_bytes,
           allocated |-> allocated_bytes,
           has_limit |-> has_limit,
           workspace_limit |-> workspace_limit,
           ok |-> r.ok,
           result |-> r.value]
    /\ UNCHANGED << device_memory_limit_bytes, allocated_bytes, device_buffers,
                    aborted, report_count >>
    /\ UNCHANGED << algoVars, runVars, createVars, buildVars, dataVars, transferVars >>

vars ==
    << budgetVars, algoVars, runVars, createVars, buildVars, dataVars,
       transferVars >>

(***************************************************************************)
(* Convolution algorithms: ConvolutionAlgo is a variant over the three     *)
(* cuDNN algorithm enums; each enum has a fixed number of enumerators.     *)
(***************************************************************************)
MaxCost == 2

CUDNN_CONVOLUTION_FWD_ALGO_COUNT == 8
CUDNN_CONVOLUTION_BWD_DATA_ALGO_COUNT == 6
CUDNN_CONVOLUTION_BWD_FILTER_ALGO_COUNT == 7

Directions == {"CONVOLUTION_FWD", "CONVOLUTION_BWD_DATA", "CONVOLUTION_BWD_FILTER"}
OtherDirection == "CONVOLUTION_DIRECTION_OTHER"
FwdAlgo == "cudnnConvolutionFwdAlgo_t"
BwdDataAlgo == "cudnnConvolutionBwdDataAlgo_t"
BwdFilterAlgo == "cudnnConvolutionBwdFilterAlgo_t"
AlgoTypes == {FwdAlgo, BwdDataAlgo, BwdFilterAlgo}
Success == "CUDNN_STATUS_SUCCESS"
NotSupported == "CUDNN_STATUS_NOT_SUPPORTED"
NoAlgo == [type |-> "none", value |-> NoValue]
DataTypes == {"CUDNN_DATA_FLOAT", "CUDNN_DATA_DOUBLE", "CUDNN_DATA_HALF",
              "CUDNN_DATA_INT8"}

AlgoType(direction) ==
    CASE direction = "CONVOLUTION_FWD" -> FwdAlgo
      [] direction = "CONVOLUTION_BWD_DATA" -> BwdDataAlgo
      [] direction = "CONVOLUTION_BWD_FILTER" -> BwdFilterAlgo
      [] OTHER -> "none"

AlgoCount(direction) ==
    CASE direction = "CONVOLUTION_FWD" -> CUDNN_CONVOLUTION_FWD_ALGO_COUNT
      [] direction = "CONVOLUTION_BWD_DATA" -> CUDNN_CONVOLUTION_BWD_DATA_ALGO_COUNT
      [] direction = "CONVOLUTION_BWD_FILTER" -> CUDNN_CONVOLUTION_BWD_FILTER_ALGO_COUNT
      [] OTHER -> 0

ConvolutionAlgo(type, value) == [type |-> type, value |-> value]

AllAlgos ==
    UNION { { ConvolutionAlgo(AlgoType(d), v) : v \in 0 .. (AlgoCount(d) - 1) } :
            d \in Directions }

(***************************************************************************)
(* What the engine may answer to a workspace-size query: a failure, or a   *)
(* success with a size.                                                    *)
(***************************************************************************)
SizeResponses ==
    { [status |-> NotSupported, size |-> 0] } \cup
    { [status |-> Success, size |-> c] : c \in 0 .. MaxCost }

(***************************************************************************)
(* GetWorkspaceSize: the visitor calls the engine's query of the           *)
(* algorithm's own direction; `descriptors` lists the descriptor arguments *)
(* in the order they are passed.                                           *)
(***************************************************************************)
WorkspaceSizeFwd ==
    [entry |-> "cudnnGetConvolutionForwardWorkspaceSize",
     descriptors |-> << "input", "filter", "convolution", "output" >>]

WorkspaceSizeBwdDataMisordered ==
    [entry |-> "cudnnGetConvolutionBackwardDataWorkspaceSize",
     descriptors |-> << "input", "filter", "convolution", "output" >>]

WorkspaceSizeBwdData ==
    [entry |-> "cudnnGetConvolutionBackwardDataWorkspaceSize",
     descriptors |-> << "filter", "output", "convolution", "input" >>]

WorkspaceSizeBwdFilter ==
    [entry |-> "cudnnGetConvolutionBackwardFilterWorkspaceSize",
     descriptors |-> << "input", "output", "convolution", "filter" >>]

GetWorkspaceSize(algo, response) ==
    LET call == CASE algo.type = FwdAlgo -> WorkspaceSizeFwd
                  [] algo.type = BwdDataAlgo -> WorkspaceSizeBwdData
                  [] algo.type = BwdFilterAlgo -> WorkspaceSizeBwdFilter
    IN [entry |-> call.entry,
        descriptors |-> call.descriptors,
        algo |-> algo,
        ok |-> response.status = Success,
        value |-> IF response.status = Success THEN response.size ELSE NoValue]

(***************************************************************************)
(* GetSupportedConvolutionAlgos: the switch on the direction, then one     *)
(* iteration of GetSupportedConvolutionAlgosImpl's loop per step.          *)
(***************************************************************************)
AlgoSupportedBelowLimit(size_or, workspace_limit) ==
    size_or.ok /\ size_or.value < workspace_limit

AlgoSupported(size_or, workspace_limit) ==
    size_or.ok /\ size_or.value <= workspace_limit

EnumerationIdle ==
    [pc |-> "idle", direction |-> "none", type |-> "none", num_elements |-> 0,
     workspace_limit |-> 0, i |-> 0, result |-> << >>, queries |-> << >>]

GetSupportedConvolutionAlgos(direction, workspace_limit) ==
    /\ ~aborted
    /\ enumeration.pc = "idle"
    /\ IF direction \in Directions
       THEN /\ enumeration' =
                  [pc |-> "loop", direction |-> direction,
                   type |-> AlgoType(direction),
                   num_elements |-> AlgoCount(direction),
                   workspace_limit |-> workspace_limit, i |-> 0,
                   result |-> << >>, queries |-> << >>]
            /\ UNCHANGED aborted
       ELSE /\ aborted' = TRUE
            /\ UNCHANGED enumeration
    /\ UNCHANGED << device_memory_limit_bytes, allocated_bytes, device_buffers,
                    report_count, last_call, find, runVars, createVars, buildVars, dataVars, transferVars >>

GetSupportedConvolutionAlgosImpl(response) ==
    /\ ~aborted
    /\ enumeration.pc = "loop"
    /\ enumeration.i < enumeration.num_elements
    /\ LET algo == ConvolutionAlgo(enumeration.type, enumeration.i)
           size_or == GetWorkspaceSize(algo, response)
       IN enumeration' =
             [enumeration EXCEPT
                !.queries = Append(@, size_or),
                !.result = IF AlgoSupported(size_or, enumeration.workspace_limit)
                           THEN Append(@, algo)
                           ELSE @,
                !.i = @ + 1,
                !.pc = IF enumeration.i + 1 < enumeration.num_elements
                       THEN "loop"
                       ELSE "returned"]
    /\ UNCHANGED << budgetVars, find, runVars, createVars, buildVars, dataVars, transferVars >>

(***************************************************************************)
(* FindConvolutionAlgo: the workspace allocation, then the engine's search *)
(* for one candidate and ToConvolutionAlgo on what it reports.  The        *)
(* workspace is released when the function returns.                        *)
(***************************************************************************)
FindIdle ==
    [pc |-> "idle", direction |-> "none", workspace_limit |-> 0,
     workspace |-> NoBuffer, entry |-> "none", descriptors |-> << >>,
     requested |-> 0, engine_status |-> "none", num_algorithms |-> 0,
     perf_status |-> "none", ok |-> FALSE, error |-> "none", algo |-> NoAlgo,
     before |-> 0]

AllocationOutcomes(bytes) ==
    IF allocated_bytes + bytes <= DeviceTotalBytes THEN {TRUE, FALSE} ELSE {FALSE}

FindEngineCall(direction) ==
    CASE direction = "CONVOLUTION_FWD" ->
           [entry |-> "cudnnFindConvolutionForwardAlgorithmEx",
            descriptors |-> << "input", "filter", "convolution", "output" >>,
            requested |-> 1]
      [] direction = "CONVOLUTION_BWD_DATA" ->
           [entry |-> "cudnnFindConvolutionBackwardDataAlgorithmEx",
            descriptors |-> << "filter", "output", "convolution", "input" >>,
            requested |-> 1]
      [] direction = "CONVOLUTION_BWD_FILTER" ->
           [entry |-> "cudnnFindConvolutionBackwardFilterAlgorithmEx",
            descriptors |-> << "input", "output", "convolution", "filter" >>,
            requested |-> 1]

(***************************************************************************)
(* What the engine may report for a search of `requested` candidates: a    *)
(* failure, which leaves num_algorithms as initialised, or a success with  *)
(* a count and, when the count is zero, a candidate record it never wrote, *)
(* whose fields may hold anything.                                         *)
(***************************************************************************)
FindResponses(direction, requested) ==
    { [status |-> st, returned |-> n, perf |-> [status |-> ps, algo |-> a]] :
        st \in {Success, NotSupported}, n \in 0 .. requested,
        ps \in {Success, NotSupported}, a \in 0 .. (AlgoCount(direction) - 1) }

ToConvolutionAlgoIgnoringStatus(type, algo_perf, num_algorithms) ==
    IF num_algorithms = 0
    THEN [ok |-> FALSE, error |-> "No supported algorithm", algo |-> NoAlgo]
    ELSE [ok |-> TRUE, error |-> "none",
          algo |-> ConvolutionAlgo(type, algo_perf.algo)]

ToConvolutionAlgo(type, algo_perf, num_algorithms) ==
    IF num_algorithms = 0 \/ algo_perf.status # Success
    THEN [ok |-> FALSE, error |-> "No supported algorithm", algo |-> NoAlgo]
    ELSE [ok |-> TRUE, error |-> "none",
          algo |-> ConvolutionAlgo(type, algo_perf.algo)]

FindScopeExitOnSuccessOnly(ledger, workspace, ok) ==
    IF ok THEN ledger - workspace ELSE ledger

\* The local `workspace` goes out of scope at every return of the function
\* and its deleter gives the bytes back, whatever the function returns.
FindScopeExit(ledger, workspace, ok) == ledger - workspace

FindConvolutionAlgo(direction, workspace_limit, allocated_ok) ==
    /\ ~aborted
    /\ find.pc = "idle"
    /\ allocated_ok \in AllocationOutcomes(workspace_limit)
    /\ IF allocated_ok
       THEN /\ find' = [FindIdle EXCEPT !.pc = "switch",
                                        !.direction = direction,
                                        !.workspace_limit = workspace_limit,
                                        !.workspace = workspace_limit,
                                        !.before = allocated_bytes]
            /\ allocated_bytes' = allocated_bytes + workspace_limit
       ELSE /\ find' = [FindIdle EXCEPT !.pc = "returned",
                                        !.direction = direction,
                                        !.workspace_limit = workspace_limit,
                                        !.error = "allocation failed",
                                        !.before = allocated_bytes]
            /\ UNCHANGED allocated_bytes
    /\ UNCHANGED << device_memory_limit_bytes, device_buffers, aborted,
                    report_count, last_call, enumeration, runVars, createVars, buildVars, dataVars, transferVars >>

FindConvolutionAlgoSwitch(response) ==
    /\ ~aborted
    /\ find.pc = "switch"
    /\ IF find.direction \in Directions
       THEN LET call == FindEngineCall(find.direction)
                num_algorithms == IF response.status = Success
                                  THEN response.returned
                                  ELSE 0
                r == IF response.status # Success
                     THEN [ok |-> FALSE, error |-> "cuDNN error", algo |-> NoAlgo]
                     ELSE ToConvolutionAlgo(AlgoType(find.direction),
                                            response.perf, num_algorithms)
            IN /\ response \in FindResponses(find.direction, call.requested)
               /\ find' = [find EXCEPT !.pc = "returned",
                                       !.workspace = NoBuffer,
                                       !.entry = call.entry,
                                       !.descriptors = call.descriptors,
                                       !.requested = call.requested,
                                       !.engine_status = response.status,
                                       !.num_algorithms = num_algorithms,
                                       !.perf_status = response.perf.status,
                                       !.ok = r.ok,
                                       !.error = r.error,
                                       !.algo = r.algo]
       ELSE /\ response = [status |-> "none"]
            /\ find' = [find EXCEPT !.pc = "returned",
                                    !.workspace = NoBuffer,
                                    !.error = "Unsupported: "]
    /\ allocated_bytes' = FindScopeExit(allocated_bytes, find.workspace, find'.ok)
    /\ UNCHANGED << device_memory_limit_bytes, device_buffers, aborted,
                    report_count, last_call, enumeration, runVars, createVars, buildVars, dataVars, transferVars >>

(***************************************************************************)
(* RunConvolution: the storage of alpha and beta (union ScalingFactor) and *)
(* the engine entry point each visitor overload calls.  A caller queries   *)
(* the workspace size of an algorithm and then runs that algorithm.        *)
(***************************************************************************)

ScalingFactor(data_type) ==
    IF data_type = "CUDNN_DATA_DOUBLE" THEN "double_value" ELSE "float_value"

RunFwd(input_type, filter_type, output_type) ==
    [entry |-> "cudnnConvolutionForward",
     alpha_scale |-> ScalingFactor(output_type),
     beta_scale |-> ScalingFactor(output_type),
     descriptors |-> << "input", "filter", "convolution", "output" >>]

RunBwdDataScaledByOutput(input_type, filter_type, output_type) ==
    [entry |-> "cudnnConvolutionBackwardData",
     alpha_scale |-> ScalingFactor(output_type),
     beta_scale |-> ScalingFactor(output_type),
     descriptors |-> << "filter", "output", "convolution", "input" >>]

RunBwdData(input_type, filter_type, output_type) ==
    [entry |-> "cudnnConvolutionBackwardData",
     alpha_scale |-> ScalingFactor(input_type),
     beta_scale |-> ScalingFactor(input_type),
     descriptors |-> << "filter", "output", "convolution", "input" >>]

RunBwdFilter(input_type, filter_type, output_type) ==
    [entry |-> "cudnnConvolutionBackwardFilter",
     alpha_scale |-> ScalingFactor(filter_type),
     beta_scale |-> ScalingFactor(filter_type),
     descriptors |-> << "input", "output", "convolution", "filter" >>]

RunConvolution(algo, input_type, filter_type, output_type, status) ==
    LET call == CASE algo.type = FwdAlgo ->
                       RunFwd(input_type, filter_type, output_type)
                  [] algo.type = BwdDataAlgo ->
                       RunBwdData(input_type, filter_type, output_type)
                  [] algo.type = BwdFilterAlgo ->
                       RunBwdFilter(input_type, filter_type, output_type)
    IN [entry |-> call.entry,
        alpha_scale |-> call.alpha_scale,
        beta_scale |-> call.beta_scale,
        descriptors |-> call.descriptors,
        algo |-> algo,
        input_type |-> input_type,
        filter_type |-> filter_type,
        output_type |-> output_type,
        ok |-> status = Success]

CallGetWorkspaceSize(algo, response) ==
    /\ ~aborted
    /\ size_call = NoCall
    /\ size_call' = GetWorkspaceSize(algo, response)
    /\ UNCHANGED << budgetVars, algoVars, run_call, createVars, buildVars, dataVars, transferVars >>

CallRunConvolution(input_type, filter_type, output_type, status) ==
    /\ ~aborted
    /\ size_call # NoCall
    /\ run_call = NoCall
    /\ run_call' = RunConvolution(size_call.algo, input_type, filter_type,
                                  output_type, status)
    /\ UNCHANGED << budgetVars, algoVars, size_call, createVars, buildVars, dataVars, transferVars >>

(***************************************************************************)
(* Native handles, descriptors and device buffers, and the variables that  *)
(* own them.  CudnnHandle, TensorDescriptor, FilterDescriptor and          *)
(* ConvolutionDescriptor are move-only owning wrappers whose destructor    *)
(* runs the deleter of their type; DeviceMemory owns a device buffer.      *)
(***************************************************************************)
Null == 0
HandleKind == "cudnnHandle_t"
TensorKind == "cudnnTensorDescriptor_t"
FilterKind == "cudnnFilterDescriptor_t"
ConvolutionKind == "cudnnConvolutionDescriptor_t"
MemoryKind == "device memory"

CreateConvolutionLocals ==
    << "input_desc", "filter_desc", "conv_desc", "output_desc",
       "input_data", "filter_data", "output_data" >>

ConvolutionMembers ==
    << "Convolution.input_desc", "Convolution.filter_desc",
       "Convolution.output_desc", "Convolution.conv_desc",
       "Convolution.input_data", "Convolution.filter_data",
       "Convolution.output_data" >>

MaxFailing == Len(ConvolutionMembers) + 1

FactoryLocals ==
    { "CreateCudnnHandle.result", "CreateTensorDescriptor.result",
      "CreateFilterDescriptor.result", "CreateConvolutionDescriptor.result",
      "CreateDeviceData.result", "CreateOutputDescriptor.output" }

Owners ==
    {"handle"} \cup FactoryLocals
       \cup { CreateConvolutionLocals[k] : k \in 1 .. Len(CreateConvolutionLocals) }
       \cup { ConvolutionMembers[k] : k \in 1 .. Len(ConvolutionMembers) }

OwnerKind(owner) ==
    CASE owner \in {"handle", "CreateCudnnHandle.result"} -> HandleKind
      [] owner \in {"CreateTensorDescriptor.result", "CreateOutputDescriptor.output",
                    "input_desc", "output_desc", "Convolution.input_desc",
                    "Convolution.output_desc"} -> TensorKind
      [] owner \in {"CreateFilterDescriptor.result", "filter_desc",
                    "Convolution.filter_desc"} -> FilterKind
      [] owner \in {"CreateConvolutionDescriptor.result", "conv_desc",
                    "Convolution.conv_desc"} -> ConvolutionKind
      [] OTHER -> MemoryKind

(***************************************************************************)
(* The deleters: the engine call each one makes.                           *)
(***************************************************************************)
CudnnHandleDeleter == "cudnnDestroy"
TensorDescriptorDeleter == "cudnnDestroyTensorDescriptor"
FilterDescriptorDeleter == "cudnnDestroyFilterDescriptor"
ConvolutionDescriptorDeleter == "cudnnDestroyConvolutionDescriptor"
DeviceMemoryDeleter == "cudaFree"

DeleterOf(owner) ==
    CASE OwnerKind(owner) = HandleKind -> CudnnHandleDeleter
      [] OwnerKind(owner) = TensorKind -> TensorDescriptorDeleter
      [] OwnerKind(owner) = FilterKind -> FilterDescriptorDeleter
      [] OwnerKind(owner) = ConvolutionKind -> ConvolutionDescriptorDeleter
      [] OwnerKind(owner) = MemoryKind -> DeviceMemoryDeleter

(***************************************************************************)
(* The part of the state a construction step works on, and the steps'      *)
(* building blocks: a factory wraps a fresh native in its local, a move    *)
(* hands the native over and empties the source, a destructor runs the     *)
(* deleter on the native its variable holds, if any.  A deleter whose      *)
(* engine call fails ends the process (CHECK_OK_STATUS).                   *)
(***************************************************************************)
World ==
    [natives |-> natives, owners |-> owners, allocated |-> allocated_bytes,
     aborted |-> aborted]

Wrap(w, kind, bytes, owner) ==
    [w EXCEPT !.natives = Append(@, [kind |-> kind, bytes |-> bytes,
                                     live |-> TRUE, released |-> 0,
                                     released_by |-> "none"]),
              !.owners[owner] = Len(w.natives) + 1,
              !.allocated = @ + bytes]

MoveCopying(w, from, to) ==
    [w EXCEPT !.owners[to] = w.owners[from]]

Move(w, from, to) ==
    [w EXCEPT !.owners[to] = w.owners[from], !.owners[from] = Null]

Delete(w, owner, ok) ==
    LET id == w.owners[owner] IN
    IF w.aborted \/ id = Null
    THEN w
    ELSE IF ~ok
         THEN [w EXCEPT !.aborted = TRUE]
         ELSE [w EXCEPT !.natives[id] = [@ EXCEPT !.live = FALSE,
                                                  !.released = @ + 1,
                                                  !.released_by = DeleterOf(owner)],
                        !.owners[owner] = Null,
                        !.allocated = @ - w.natives[id].bytes]

RECURSIVE DestroyAll(_, _, _)
DestroyAll(w, variables, failing) ==
    IF variables = << >>
    THEN w
    ELSE DestroyAll(Delete(w, Head(variables), failing # 1),
                    Tail(variables), failing - 1)

Reverse(seq) == [k \in 1 .. Len(seq) |-> seq[Len(seq) + 1 - k]]

RECURSIVE MoveAll(_, _, _)
MoveAll(w, from, to) ==
    IF from = << >>
    THEN w
    ELSE MoveAll(Move(w, Head(from), Head(to)), Tail(from), Tail(to))

Abort(w) == [w EXCEPT !.aborted = TRUE]

Commit(w) ==
    /\ natives' = w.natives
    /\ owners' = w.owners
    /\ allocated_bytes' = w.allocated
    /\ aborted' = w.aborted

LiveNatives(w) == { id \in 1 .. Len(w.natives) : w.natives[id].live }

(***************************************************************************)
(* The scope exits: CreateOutputDescriptor returning an error destroys its *)
(* local `output`; CreateConvolution returning destroys its locals in the  *)
(* reverse order of their declaration; a Convolution destroys its members. *)
(***************************************************************************)
OutputScopeExitLeaking(w, failing) == w

OutputScopeExit(w, failing) ==
    DestroyAll(w, << "CreateOutputDescriptor.output" >>, failing)

CreateConvolutionScopeExit(w, failing) ==
    DestroyAll(w, Reverse(CreateConvolutionLocals), failing)

(***************************************************************************)
(* The factories.                                                          *)
(***************************************************************************)
CreateIdle ==
    [pc |-> "idle", status |-> "none", allocated_at_entry |-> 0,
     live_at_entry |-> {}]

CreateCudnnHandle(ok) ==
    /\ ~aborted
    /\ create.pc = "idle"
    /\ owners["handle"] = Null
    /\ natives = << >>
    /\ IF ok
       THEN Commit(Move(Wrap(World, HandleKind, 0, "CreateCudnnHandle.result"),
                        "CreateCudnnHandle.result", "handle"))
       ELSE Commit(Abort(World))
    /\ UNCHANGED << device_memory_limit_bytes, device_buffers, report_count,
                    last_call, algoVars, runVars, create, transferVars, buildVars, dataVars >>

Factory(kind) ==
    CASE kind = TensorKind -> "CreateTensorDescriptor.result"
      [] kind = FilterKind -> "CreateFilterDescriptor.result"
      [] kind = ConvolutionKind -> "CreateConvolutionDescriptor.result"

\* CreateTensorDescriptor(proto), CreateFilterDescriptor(proto) and
\* CreateConvolutionDescriptor(proto): the native is created and wrapped,
\* populated under CHECK_OK_STATUS, and returned by move.
CreateDescriptor(w, kind, target, ok) ==
    IF ok
    THEN Move(Wrap(w, kind, 0, Factory(kind)), Factory(kind), target)
    ELSE Abort(Wrap(w, kind, 0, Factory(kind)))

(***************************************************************************)
(* CreateConvolution, one step per construction step.                      *)
(***************************************************************************)
CreateConvolution(grouped_unsupported) ==
    /\ ~aborted
    /\ create.pc = "idle"
    /\ create' = [pc |-> IF grouped_unsupported THEN "returned" ELSE "input_desc",
                  status |-> IF grouped_unsupported THEN "error" ELSE "none",
                  allocated_at_entry |-> allocated_bytes,
                  live_at_entry |-> LiveNatives(World)]
    /\ UNCHANGED << budgetVars, algoVars, runVars, natives, owners, transferVars, buildVars, dataVars >>

CreateConvolutionDescriptors(ok) ==
    /\ ~aborted
    /\ create.pc \in {"input_desc", "filter_desc", "conv_desc"}
    /\ Commit(CASE create.pc = "input_desc" ->
                     CreateDescriptor(World, TensorKind, "input_desc", ok)
                [] create.pc = "filter_desc" ->
                     CreateDescriptor(World, FilterKind, "filter_desc", ok)
                [] create.pc = "conv_desc" ->
                     CreateDescriptor(World, ConvolutionKind, "conv_desc", ok))
    /\ create' = [create EXCEPT !.pc =
                     IF ~ok THEN @
                     ELSE CASE @ = "input_desc" -> "filter_desc"
                            [] @ = "filter_desc" -> "conv_desc"
                            [] @ = "conv_desc" -> "output_desc"]
    /\ UNCHANGED << device_memory_limit_bytes, device_buffers, report_count,
                    last_call, algoVars, runVars, transferVars, buildVars, dataVars >>

\* CreateOutputDescriptor: with an output in the config the tensor factory
\* builds it; otherwise `output` is created and either populated and moved
\* out, or an engine error is returned, or a CHECK ends the process.
CreateOutputDescriptor(has_output, outcome, failing) ==
    /\ ~aborted
    /\ create.pc = "output_desc"
    /\ has_output => outcome # "error"
    /\ LET made == Wrap(World, TensorKind, 0, "CreateOutputDescriptor.output")
           w == CASE outcome = "fatal" ->
                       IF has_output
                       THEN CreateDescriptor(World, TensorKind, "output_desc", FALSE)
                       ELSE Abort(made)
                  [] outcome = "ok" ->
                       IF has_output
                       THEN CreateDescriptor(World, TensorKind, "output_desc", TRUE)
                       ELSE Move(made, "CreateOutputDescriptor.output", "output_desc")
                  [] outcome = "error" ->
                       CreateConvolutionScopeExit(OutputScopeExit(made, failing),
                                                  failing - 1)
       IN /\ Commit(w)
          /\ create' = [create EXCEPT
                          !.pc = CASE outcome = "ok" -> "input_data"
                                   [] outcome = "error" -> "returned"
                                   [] outcome = "fatal" -> @,
                          !.status = IF outcome = "error" THEN "error" ELSE @]
    /\ UNCHANGED << device_memory_limit_bytes, device_buffers, report_count,
                    last_call, algoVars, runVars, transferVars, buildVars, dataVars >>

\* CreateTensorData / CreateFilterData for input_data, filter_data and
\* output_data: a buffer, an error status, or LOG(FATAL) for an element kind
\* that is not supported; after output_data the Convolution is returned with
\* every local moved into it.
CreateData(bytes, outcome, failing) ==
    /\ ~aborted
    /\ create.pc \in {"input_data", "filter_data", "output_data"}
    /\ outcome = "ok" => TRUE \in AllocationOutcomes(bytes)
    /\ LET made == Move(Wrap(World, MemoryKind, bytes, "CreateDeviceData.result"),
                        "CreateDeviceData.result", create.pc)
           w == CASE outcome = "fatal" -> Abort(World)
                  [] outcome = "error" -> CreateConvolutionScopeExit(World, failing)
                  [] outcome = "ok" ->
                       IF create.pc = "output_data"
                       THEN CreateConvolutionScopeExit(
                               MoveAll(made,
                                       << "input_desc", "filter_desc", "output_desc",
                                          "conv_desc", "input_data", "filter_data",
                                          "output_data" >>,
                                       ConvolutionMembers),
                               failing)
                       ELSE made
       IN /\ Commit(w)
          /\ create' = [create EXCEPT
                          !.pc = CASE outcome = "fatal" -> @
                                   [] outcome = "error" -> "returned"
                                   [] outcome = "ok" ->
                                        CASE @ = "input_data" -> "filter_data"
                                          [] @ = "filter_data" -> "output_data"
                                          [] @ = "output_data" -> "returned",
                          !.status = CASE outcome = "error" -> "error"
                                       [] outcome = "ok" /\ create.pc = "output_data"
                                            -> "ok"
                                       [] OTHER -> @]
    /\ UNCHANGED << device_memory_limit_bytes, device_buffers, report_count,
                    last_call, algoVars, runVars, transferVars, buildVars, dataVars >>

\* The caller's scope ends: the Convolution, if one was returned, destroys
\* its members in the reverse order of their declaration, and the handle is
\* destroyed after it.
CallerScopeExit(failing) ==
    /\ ~aborted
    /\ create.pc = "returned"
    /\ Commit(DestroyAll(World, Reverse(ConvolutionMembers) \o << "handle" >>,
                         failing))
    /\ create' = [create EXCEPT !.pc = "destroyed"]
    /\ UNCHANGED << device_memory_limit_bytes, device_buffers, report_count,
                    last_call, algoVars, runVars, transferVars, buildVars, dataVars >>

(***************************************************************************)
(* Device work and host reads.  The device runs issued work in order and   *)
(* on its own time; cudaDeviceSynchronize and a blocking cudaMemcpy return *)
(* once everything issued before them is complete.  A read of a buffer is  *)
(* recorded with whether work writing that buffer was still pending.       *)
(***************************************************************************)
MaxPending == 2

Work(op, reads, writes) == [op |-> op, reads |-> reads, writes |-> writes]

PendingWriter(queue, buffer) ==
    \E k \in 1 .. Len(queue) : queue[k].writes = buffer

DeviceSynchronizeReturningEarly(queue) == queue

DeviceSynchronize(queue) == << >>

BlockingMemcpy(queue) == << >>

\* A read of buffer issued with `queue` pending; `before` is what was
\* pending when the reading function was entered.
ReadEvent(kind, reader, buffer, before, queue) ==
    [kind |-> kind, reader |-> reader, buffer |-> buffer,
     waited |-> PendingWriter(before, buffer),
     pending_writer |-> PendingWriter(queue, buffer)]

TransferReady ==
    /\ transfer.pc \in {"idle", "returned"}
    /\ Len(device_queue) < MaxPending

TransferIdle ==
    [pc |-> "idle", fn |-> "none", data_type |-> "none", src_type |-> "none",
     dst_type |-> "none", temp_data |-> NoBuffer, status |-> "none"]

\* Work issued before the call and possibly still running: what produced
\* the tensor that is printed or converted.
IssueDeviceWork ==
    /\ ~aborted
    /\ TransferReady
    /\ device_queue' = Append(device_queue,
                              Work("cudnnConvolutionForward", "input", "data"))
    /\ UNCHANGED << budgetVars, algoVars, runVars, createVars, buildVars, dataVars, events, transfer >>

DeviceCompletes ==
    /\ device_queue # << >>
    /\ device_queue' = Tail(device_queue)
    /\ UNCHANGED << budgetVars, algoVars, runVars, createVars, buildVars, dataVars, events, transfer >>

(***************************************************************************)
(* GetTensorDebugString and PrintVisitor.                                  *)
(***************************************************************************)
GetTensorDebugString(data_type, print_values) ==
    /\ ~aborted
    /\ TransferReady
    /\ LET supported == data_type \in {"CUDNN_DATA_FLOAT", "CUDNN_DATA_DOUBLE",
                                       "CUDNN_DATA_HALF"}
       IN /\ aborted' = (print_values /\ ~supported)
          /\ transfer' =
                [TransferIdle EXCEPT
                   !.fn = "GetTensorDebugString",
                   !.data_type = data_type,
                   !.status = IF print_values THEN "none" ELSE "ok",
                   !.pc = CASE ~print_values -> "returned"
                            [] print_values /\ ~supported -> "visit"
                            [] print_values /\ data_type = "CUDNN_DATA_HALF" ->
                                 "convert_to_host"
                            [] OTHER -> "memcpy"]
    /\ UNCHANGED << device_memory_limit_bytes, allocated_bytes, device_buffers,
                    report_count, last_call, algoVars, runVars, createVars, buildVars, dataVars,
                    device_queue, events >>

\* PrintVisitor::operator()(T*): the blocking copy to the host.
PrintVisitorCopy(ok) ==
    /\ ~aborted
    /\ transfer.pc = "memcpy"
    /\ IF ok
       THEN /\ device_queue' = BlockingMemcpy(device_queue)
            /\ events' = events \cup
                  { ReadEvent("copy", "cudaMemcpy", "data", device_queue,
                              BlockingMemcpy(device_queue)) }
            /\ transfer' = [transfer EXCEPT !.pc = "print"]
            /\ UNCHANGED aborted
       ELSE /\ aborted' = TRUE
            /\ UNCHANGED << device_queue, events, transfer >>
    /\ UNCHANGED << device_memory_limit_bytes, allocated_bytes, device_buffers,
                    report_count, last_call, algoVars, runVars, createVars, buildVars, dataVars >>

\* PrintVisitor::operator()(__half*): host memory is allocated and the
\* device converts into it.
PrintVisitorConvert(ok) ==
    /\ ~aborted
    /\ transfer.pc = "convert_to_host"
    /\ IF ok
       THEN /\ device_queue' = Append(device_queue,
                                      Work("ConvertDeviceData", "data", "host_ptr"))
            /\ transfer' = [transfer EXCEPT !.pc = "print"]
            /\ UNCHANGED aborted
       ELSE /\ aborted' = TRUE
            /\ UNCHANGED << device_queue, transfer >>
    /\ UNCHANGED << device_memory_limit_bytes, allocated_bytes, device_buffers,
                    report_count, last_call, algoVars, runVars, createVars, buildVars, dataVars, events >>

\* PrintVisitor::Print: the synchronization, then the loop over the
\* elements of the host buffer.
PrintVisitorPrint(ok) ==
    /\ ~aborted
    /\ transfer.pc = "print"
    /\ IF ok
       THEN /\ device_queue' = DeviceSynchronize(device_queue)
            /\ events' = events \cup
                  { ReadEvent("host", "Print", "host_ptr", device_queue,
                              DeviceSynchronize(device_queue)) }
            /\ transfer' = [transfer EXCEPT !.pc = "returned", !.status = "ok"]
            /\ UNCHANGED aborted
       ELSE /\ aborted' = TRUE
            /\ UNCHANGED << device_queue, events, transfer >>
    /\ UNCHANGED << device_memory_limit_bytes, allocated_bytes, device_buffers,
                    report_count, last_call, algoVars, runVars, createVars, buildVars, dataVars >>

(***************************************************************************)
(* ConvertAndTransformTensor and TransformTensor.                          *)
(***************************************************************************)
TransformTensor(queue, src, dst) ==
    Append(queue, Work("cudnnTransformTensor", src, dst))

\* Equal element kinds: TransformTensor on the source itself.  Otherwise
\* the ranks must agree, the temporary descriptor is set and the temporary
\* buffer allocated.
ConvertAndTransformTensor(src_type, dst_type, bytes, outcome) ==
    /\ ~aborted
    /\ TransferReady
    /\ src_type = dst_type => outcome \in {"ok", "error"}
    /\ outcome = "ok" => TRUE \in AllocationOutcomes(bytes)
    /\ LET same == src_type = dst_type
           proceed == ~same /\ outcome = "ok"
       IN /\ transfer' =
                [TransferIdle EXCEPT
                   !.fn = "ConvertAndTransformTensor",
                   !.src_type = src_type,
                   !.dst_type = dst_type,
                   !.temp_data = IF proceed THEN bytes ELSE NoBuffer,
                   !.status = CASE proceed -> "none"
                                [] same /\ outcome = "ok" -> "ok"
                                [] OTHER -> "error",
                   !.pc = IF proceed THEN "convert" ELSE "returned"]
          /\ aborted' = (~same /\ outcome = "rank_mismatch")
          /\ allocated_bytes' = IF proceed THEN allocated_bytes + bytes
                                ELSE allocated_bytes
          /\ device_queue' = IF same /\ outcome = "ok"
                             THEN TransformTensor(device_queue, "data", "dst_data")
                             ELSE device_queue
          /\ events' = IF same /\ outcome = "ok"
                       THEN events \cup
                              { ReadEvent("device", "cudnnTransformTensor", "data",
                                          device_queue, device_queue) }
                       ELSE events
    /\ UNCHANGED << device_memory_limit_bytes, device_buffers,
                    report_count, last_call, algoVars, runVars, createVars, buildVars, dataVars >>

\* visit(ConvertDeviceDataVisitor ...): the device converts the source into
\* the temporary buffer; an element kind without a pointer variant is
\* fatal.
ConvertDeviceDataVisit ==
    /\ ~aborted
    /\ transfer.pc = "convert"
    /\ LET supported ==
              {transfer.src_type, transfer.dst_type} \subseteq
                 {"CUDNN_DATA_FLOAT", "CUDNN_DATA_DOUBLE", "CUDNN_DATA_HALF"}
       IN /\ aborted' = ~supported
          /\ device_queue' =
                IF supported
                THEN Append(device_queue,
                            Work("ConvertDeviceData", "data", "temp_data"))
                ELSE device_queue
          /\ transfer' = [transfer EXCEPT !.pc = IF supported THEN "synchronize"
                                                 ELSE @]
    /\ UNCHANGED << device_memory_limit_bytes, allocated_bytes, device_buffers,
                    report_count, last_call, algoVars, runVars, createVars, buildVars, dataVars, events >>

\* cudaDeviceSynchronize, then TransformTensor from the temporary buffer;
\* the temporary buffer is released when the function returns.
SynchronizeAndTransform(sync_ok, transform_ok) ==
    /\ ~aborted
    /\ transfer.pc = "synchronize"
    /\ ~sync_ok => transform_ok
    /\ LET synced == DeviceSynchronize(device_queue) IN
       /\ device_queue' = IF sync_ok /\ transform_ok
                          THEN TransformTensor(synced, "temp_data", "dst_data")
                          ELSE synced
       /\ events' = IF sync_ok
                    THEN events \cup
                           { ReadEvent("device", "cudnnTransformTensor",
                                       "temp_data", device_queue, synced) }
                    ELSE events
    /\ transfer' = [transfer EXCEPT
                       !.pc = "returned",
                       !.temp_data = NoBuffer,
                       !.status = IF sync_ok /\ transform_ok THEN "ok" ELSE "error"]
    /\ allocated_bytes' = allocated_bytes - transfer.temp_data
    /\ UNCHANGED << device_memory_limit_bytes, device_buffers, aborted,
                    report_count, last_call, algoVars, runVars, createVars, buildVars, dataVars >>

(***************************************************************************)
(* The descriptor builders.  A config is the proto record the caller       *)
(* passes; a native descriptor holds what the engine stored when it was    *)
(* set.  The engine answers every create and set call with a status; it    *)
(* never accepts a non-positive dimension or stride.                       *)
(***************************************************************************)
MaxRank == 4
MaxDim == 2

BadParam == "CUDNN_STATUS_BAD_PARAM"
Unset == "unset"
TENSOR_NCHW == "TENSOR_NCHW"
TENSOR_NHWC == "TENSOR_NHWC"
TensorFormats == {TENSOR_NCHW, TENSOR_NHWC}
Slots == {"left", "right"}
NoDescriptor == [kind |-> "none"]
NoBuild == [fn |-> "none"]

RECURSIVE SeqsOfLen(_, _)
SeqsOfLen(values, n) ==
    IF n = 0 THEN { << >> }
    ELSE { Append(s, v) : s \in SeqsOfLen(values, n - 1), v \in values }

DimensionLists == UNION { SeqsOfLen(1 .. MaxDim, n) : n \in 1 .. MaxRank }

\* The length of the engine's dimension arrays.
CUDNN_DIM_MAX == 8

\* Configs as long as the arrays, and one axis longer.
LongDimensionLists ==
    { [k \in 1 .. n |-> 1] : n \in {CUDNN_DIM_MAX, CUDNN_DIM_MAX + 1} }

AllPositive(seq) == \A k \in 1 .. Len(seq) : seq[k] > 0

\* for (i = rank - 1, stride = 1; i >= 0; --i) { result[i] = stride;
\* stride *= dims[i]; }, on axes numbered from 1.
RECURSIVE PackedStridesLoop(_, _, _, _)
PackedStridesLoop(dims, i, stride, result) ==
    IF i < 1 THEN result
    ELSE PackedStridesLoop(dims, i - 1, stride * dims[i],
                           [result EXCEPT ![i] = stride])

PackedStridesFromOwnAxis(dims, rank) ==
    PackedStridesLoop(dims, rank - 1, dims[rank],
                      [k \in 1 .. rank |-> dims[rank]])

GetFullyPackedStrides(dims, rank) ==
    PackedStridesLoop(dims, rank, 1, [k \in 1 .. rank |-> 0])

\* The strides the engine derives for a 4-D tensor from its format:
\* channels are the innermost axis of NHWC.
SetTensor4dStrides(format, n, c, h, w) ==
    IF format = TENSOR_NHWC
    THEN << h * w * c, 1, w * c, c >>
    ELSE << c * h * w, h * w, w, 1 >>

\* The explicit stride lists a config may carry for its dimensions.
StrideLists(dims) ==
    { << >>,
      GetFullyPackedStrides(dims, Len(dims)),
      [k \in 1 .. Len(dims) |-> 1],
      Tail(GetFullyPackedStrides(dims, Len(dims))) }

TensorConfigs ==
    UNION { { [data_type |-> t, dimension |-> d, stride |-> s, format |-> f] :
                t \in {Unset} \cup DataTypes,
                s \in StrideLists(d),
                f \in {Unset} \cup TensorFormats } :
            d \in DimensionLists \cup LongDimensionLists }

FreshId(slot) ==
    CHOOSE id \in 1 .. 2 :
        \A o \in Slots \ {slot} : descs[o].kind = "none" \/ descs[o].id # id

\* CHECK_OK_STATUS(GetStatus(call)): the process goes on only when the
\* engine answered the call with success.
CheckOkStatusIgnoringStatus(status) == TRUE

CheckOkStatus(status) == status = Success

\* The engine's answers to the calls of one build: at most one of them, the
\* one named `failing`, is not a success.
CallStatus(failing, call) == IF failing = call THEN BadParam ELSE Success

ChecksPass(failing, calls) ==
    \A call \in calls : CheckOkStatus(CallStatus(failing, call))

Populated(failing, calls) ==
    \A call \in calls \ {"create"} : CallStatus(failing, call) = Success

TensorNative(slot, data_type, dims, strides, populated, config) ==
    [kind |-> "tensor", id |-> FreshId(slot), data_type |-> data_type,
     rank |-> Len(dims), dimensions |-> dims, strides |-> strides,
     populated |-> populated, config |-> config]

StrideFormatCheckAtLeastOne(stride_size, has_format) ==
    stride_size # 0 \/ has_format

\* CHECK_EQ(!proto.stride_size(), proto.format_oneof_case() == kFormat)
StrideFormatCheck(stride_size, has_format) ==
    (stride_size = 0) = has_format

\* What CreateTensorDescriptor(proto) does with a config: the CHECK that
\* fails, or the set call it makes and the strides it passes.
TensorBuildPlan(proto) ==
    LET rank == Len(proto.dimension) IN
    CASE proto.data_type = Unset -> [check |-> "data_type"]
      [] ~StrideFormatCheck(Len(proto.stride), proto.format # Unset) ->
            [check |-> "stride_xor_format"]
      [] Len(proto.stride) # 0 /\ rank # Len(proto.stride) ->
            [check |-> "stride_count"]
      [] Len(proto.stride) # 0 ->
            [check |-> "none", call |-> "cudnnSetTensorNdDescriptor",
             strides |-> proto.stride]
      [] rank = 4 ->
            [check |-> "none", call |-> "cudnnSetTensor4dDescriptor",
             strides |-> SetTensor4dStrides(proto.format, proto.dimension[1],
                                            proto.dimension[2],
                                            proto.dimension[3],
                                            proto.dimension[4])]
      [] proto.format # TENSOR_NCHW -> [check |-> "format"]
      [] OTHER ->
            [check |-> "none", call |-> "cudnnSetTensorNdDescriptor",
             strides |-> GetFullyPackedStrides(proto.dimension, rank)]

\* CreateTensorDescriptor(proto): every failure is a CHECK, which ends the
\* process; the descriptor is returned only after the set call succeeded.
\* The caller initialises its variable `slot` with the result.
TensorBuildCalls == {"create", "set"}

\* The engine answers a build may meet: `failing` names the call that is
\* refused, and a build that no check and no call stops has valid arguments.
TensorBuildAnswers(proto) ==
    LET plan == TensorBuildPlan(proto) IN
    { failing \in TensorBuildCalls \cup {"none"} :
        /\ failing = "none" =>
              /\ plan.check = "none"
              /\ AllPositive(proto.dimension)
              /\ AllPositive(plan.strides)
              /\ Len(proto.dimension) <= CUDNN_DIM_MAX
        /\ plan.check \in {"data_type", "stride_xor_format"} => failing = "set" }

\* result[i] = stride for i = rank - 1 down to 0: the indices of the
\* std::array<int, CUDNN_DIM_MAX> that GetFullyPackedStrides writes.
PackedStrideWrites(rank) == 0 .. (rank - 1)

\* The indices CreateTensorDescriptor has GetFullyPackedStrides write: the
\* derivation runs after the descriptor was created and the checks passed,
\* for a config without strides whose rank is not 4.
TensorStrideWrites(proto, failing) ==
    IF /\ TensorBuildPlan(proto).check = "none"
       /\ failing # "create"
       /\ Len(proto.stride) = 0
       /\ Len(proto.dimension) # 4
    THEN PackedStrideWrites(Len(proto.dimension))
    ELSE {}

TensorBuildOk(proto, failing) ==
    TensorBuildPlan(proto).check = "none" /\ ChecksPass(failing, TensorBuildCalls)

CreateTensorDescriptor(slot, proto, failing) ==
    /\ ~aborted
    /\ descs[slot] = NoDescriptor
    /\ failing \in TensorBuildAnswers(proto)
    /\ LET plan == TensorBuildPlan(proto)
           ok == TensorBuildOk(proto, failing)
       IN /\ aborted' = ~ok
          /\ build' = [fn |-> "CreateTensorDescriptor", slot |-> slot,
                       config |-> proto, check |-> plan.check,
                       failing |-> failing,
                       written |-> TensorStrideWrites(proto, failing),
                       status |-> IF ok THEN "ok" ELSE "aborted"]
          /\ descs' = IF ok
                      THEN [descs EXCEPT ![slot] =
                              TensorNative(slot, proto.data_type, proto.dimension,
                                           plan.strides,
                                           Populated(failing, TensorBuildCalls),
                                           proto)]
                      ELSE descs
    /\ UNCHANGED << device_memory_limit_bytes, allocated_bytes, device_buffers,
                    report_count, last_call, algoVars, runVars, createVars,
                    transferVars, equal_call, dataVars >>

(***************************************************************************)
(* CreateFilterDescriptor(proto).                                          *)
(***************************************************************************)
FilterConfigs ==
    { [data_type |-> t, format |-> f, dimension |-> d] :
        t \in {Unset} \cup DataTypes,
        f \in {Unset} \cup TensorFormats,
        d \in DimensionLists }

FilterNative(slot, proto, populated) ==
    [kind |-> "filter", id |-> FreshId(slot), data_type |-> proto.data_type,
     format |-> proto.format, rank |-> Len(proto.dimension),
     dimensions |-> proto.dimension, populated |-> populated,
     config |-> proto]

FilterBuildCheck(proto) ==
    CASE proto.data_type = Unset -> "data_type"
      [] proto.format = Unset -> "format"
      [] OTHER -> "none"

CreateFilterDescriptor(slot, proto, failing) ==
    /\ ~aborted
    /\ descs[slot] = NoDescriptor
    /\ LET check == FilterBuildCheck(proto)
           calls == {"create", "set"}
           ok == check = "none" /\ ChecksPass(failing, calls)
       IN /\ failing \in calls \cup {"none"}
          /\ failing = "none" => check = "none" /\ AllPositive(proto.dimension)
          /\ check # "none" => failing = "set"
          /\ aborted' = ~ok
          /\ build' = [fn |-> "CreateFilterDescriptor", slot |-> slot,
                       config |-> proto, check |-> check, failing |-> failing,
                       status |-> IF ok THEN "ok" ELSE "aborted"]
          /\ descs' = IF ok
                      THEN [descs EXCEPT ![slot] =
                              FilterNative(slot, proto, Populated(failing, calls))]
                      ELSE descs
    /\ UNCHANGED << device_memory_limit_bytes, allocated_bytes, device_buffers,
                    report_count, last_call, algoVars, runVars, createVars,
                    transferVars, equal_call, dataVars >>

(***************************************************************************)
(* CreateConvolutionDescriptor(proto).  The config is passed by value: the *)
(* lists are padded in the function's own copy.                            *)
(***************************************************************************)
MaxConvRank == 2

PadValues == {0, 1}
StepValues == {1, 2}
ConvolutionModes == {"CONVOLUTION", "CROSS_CORRELATION"}
MathTypes == {"DEFAULT_MATH", "TENSOR_OP_MATH"}
GroupCounts == {0, 1, 2}

SeqsUpTo(values, n) == UNION { SeqsOfLen(values, k) : k \in 0 .. n }

ConvolutionConfigsOver(modes, compute_modes, group_counts, math_types) ==
    { [pad |-> p, filter_stride |-> fs, dilation |-> d, mode |-> m,
       compute_mode |-> cm, group_count |-> g, math_type |-> mt] :
        p \in SeqsUpTo(PadValues, MaxConvRank),
        fs \in SeqsUpTo(StepValues, MaxConvRank),
        d \in SeqsUpTo(StepValues, MaxConvRank),
        m \in modes, cm \in compute_modes, g \in group_counts,
        mt \in math_types }

ConvolutionConfigs ==
    ConvolutionConfigsOver({"CROSS_CORRELATION"}, {Unset, "CUDNN_DATA_FLOAT"},
                           GroupCounts, {"DEFAULT_MATH"})

Max3(a, b, c) == SizeMax(SizeMax(a, b), c)

ExtendIgnoringValue(list, rank, value) ==
    list \o [k \in 1 .. (rank - Len(list)) |-> 0]

\* while (proto.x_size() < rank) proto.add_x(value);
Extend(list, rank, value) ==
    list \o [k \in 1 .. (rank - Len(list)) |-> value]

\* The function's copy of the config after the three loops.
PaddedConfig(proto) ==
    LET rank == Max3(Len(proto.pad), Len(proto.filter_stride),
                     Len(proto.dilation))
    IN [proto EXCEPT !.pad = Extend(@, rank, 0),
                     !.filter_stride = Extend(@, rank, 1),
                     !.dilation = Extend(@, rank, 1)]

CallerConfigIfPassedByReference(config, local) == local

\* The caller's record after the call: the parameter is a copy.
CallerConfigAfterCall(config, local) == config

\* What the engine holds after the set calls; a group count that was not
\* set is the engine's default of one group.
ConvolutionEngineCallsAlwaysGroup(proto) ==
    {"create", "set", "group", "math"}

\* The engine calls CreateConvolutionDescriptor makes for a config: create,
\* set, the group count only when it is positive, and the math type.
ConvolutionEngineCalls(proto) ==
    {"create", "set", "math"} \cup
        (IF proto.group_count > 0 THEN {"group"} ELSE {})

\* The order of the calls in the function body.
ConvolutionCallOrder ==
    [call \in {"create", "set", "group", "math"} |->
        CASE call = "create" -> 1 [] call = "set" -> 2
          [] call = "group" -> 3 [] OTHER -> 4]

\* The calls issued before the function returns or a fatal check stops it.
ConvolutionCallsIssued(calls, check, failing) ==
    IF check # "none" THEN {}
    ELSE { call \in calls :
             \/ failing = "none"
             \/ ConvolutionCallOrder[call] <= ConvolutionCallOrder[failing] }

ConvolutionNative(slot, proto, populated, config) ==
    [kind |-> "convolution", id |-> FreshId(slot), rank |-> Len(proto.pad),
     pad |-> proto.pad, stride |-> proto.filter_stride,
     dilation |-> proto.dilation, convolution_mode |-> proto.mode,
     compute_type |-> proto.compute_mode, math_type |-> proto.math_type,
     group_count |-> IF "group" \in ConvolutionEngineCalls(proto)
                     THEN proto.group_count ELSE 1,
     populated |-> populated, config |-> config]

CreateConvolutionDescriptor(slot, config, failing) ==
    /\ ~aborted
    /\ descs[slot] = NoDescriptor
    /\ LET check == IF config.compute_mode = Unset THEN "compute_mode"
                    ELSE "none"
           proto == PaddedConfig(config)
           calls == ConvolutionEngineCalls(proto)
           ok == check = "none" /\ ChecksPass(failing, calls)
       IN /\ failing \in calls \cup {"none"}
          /\ check # "none" => failing = "set"
          /\ aborted' = ~ok
          /\ build' = [fn |-> "CreateConvolutionDescriptor", slot |-> slot,
                       passed |-> config,
                       config |-> CallerConfigAfterCall(config, proto),
                       check |-> check, failing |-> failing,
                       calls |-> ConvolutionCallsIssued(calls, check, failing),
                       status |-> IF ok THEN "ok" ELSE "aborted"]
          /\ descs' = IF ok
                      THEN [descs EXCEPT ![slot] =
                              ConvolutionNative(slot, proto,
                                                Populated(failing, calls), config)]
                      ELSE descs
    /\ UNCHANGED << device_memory_limit_bytes, allocated_bytes, device_buffers,
                    report_count, last_call, algoVars, runVars, createVars,
                    transferVars, equal_call, dataVars >>

(***************************************************************************)
(* Reading a descriptor back.  The engine writes the first `rank` entries  *)
(* of each array.  TensorDescriptorData is declared without an             *)
(* initialiser, so its other entries hold whatever was there (`garbage`);  *)
(* the filter and convolution records are value-initialised, so theirs are *)
(* zero.                                                                   *)
(***************************************************************************)
Garbage == {0, 7}

ArrayOf(list, fill) ==
    [k \in 1 .. CUDNN_DIM_MAX |-> IF k <= Len(list) THEN list[k] ELSE fill]

GetTensorDescriptorData(tensor, garbage) ==
    [data_type |-> tensor.data_type, rank |-> tensor.rank,
     dimensions |-> ArrayOf(tensor.dimensions, garbage),
     strides |-> ArrayOf(tensor.strides, garbage)]

GetFilterDescriptorData(filter) ==
    [data_type |-> filter.data_type, format |-> filter.format,
     rank |-> filter.rank, dimensions |-> ArrayOf(filter.dimensions, 0)]

GetConvolutionDescriptorData(convolution) ==
    [rank |-> convolution.rank, pad |-> ArrayOf(convolution.pad, 0),
     stride |-> ArrayOf(convolution.stride, 0),
     dilation |-> ArrayOf(convolution.dilation, 0),
     convolution_mode |-> convolution.convolution_mode,
     compute_type |-> convolution.compute_type,
     math_type |-> convolution.math_type,
     group_count |-> convolution.group_count]

(***************************************************************************)
(* CreateOutputDescriptor.                                                 *)
(***************************************************************************)
MaxSpatial == 4

KernelExtents == {1, 3}

\* The descriptors a convolution is built from: inputs [N, C, spatial...],
\* filters [F, C, kernel...] and convolutions of one or two spatial axes.
OutputInputs ==
    { [data_type |-> v[1], rank |-> Len(d) + 2,
       dimensions |-> << v[2], 1 >> \o d,
       strides |-> GetFullyPackedStrides(<< v[2], 1 >> \o d, Len(d) + 2)] :
        v \in { << "CUDNN_DATA_FLOAT", 1 >>, << "CUDNN_DATA_HALF", 2 >> },
        d \in SeqsOfLen(1 .. MaxSpatial, 1) \cup SeqsOfLen(1 .. MaxSpatial, 2) }

OutputFilters ==
    { [data_type |-> "CUDNN_DATA_FLOAT", format |-> v[1], rank |-> Len(d) + 2,
       dimensions |-> << v[2], 1 >> \o d] :
        v \in { << TENSOR_NCHW, 1 >>, << TENSOR_NCHW, 2 >>, << TENSOR_NHWC, 2 >> },
        d \in SeqsOfLen(KernelExtents, 1) \cup SeqsOfLen(KernelExtents, 2) }

Ones(n) == [k \in 1 .. n |-> 1]
LastTwo(n) == [k \in 1 .. n |-> IF k = n THEN 2 ELSE 1]

ConvolutionVariants(n) ==
    { << Ones(n), Ones(n), 1 >>, << LastTwo(n), Ones(n), 1 >>,
      << Ones(n), LastTwo(n), 1 >>, << Ones(n), Ones(n), 2 >> }

OutputConvolutions ==
    UNION { { [rank |-> n, pad |-> p, stride |-> v[1], dilation |-> v[2],
               convolution_mode |-> "CROSS_CORRELATION",
               compute_type |-> "CUDNN_DATA_FLOAT",
               math_type |-> "DEFAULT_MATH", group_count |-> v[3]] :
                p \in SeqsOfLen(PadValues, n), v \in ConvolutionVariants(n) } :
            n \in 1 .. 2 }

\* Division of ints truncates towards zero.
TruncDiv(a, b) == IF a >= 0 THEN a \div b ELSE 0 - ((0 - a) \div b)

\* cudnnGetConvolution2dForwardOutputDim: the engine's closed form for one
\* spatial axis.
EngineOutputDim(input, pad, filter, stride, dilation) ==
    1 + TruncDiv(input + 2 * pad - ((filter - 1) * dilation + 1), stride)

GetConvolution2dForwardOutputDim(convolution, input, filter) ==
    << input.dimensions[1], filter.dimensions[1],
       EngineOutputDim(input.dimensions[3], convolution.pad[1],
                       filter.dimensions[3], convolution.stride[1],
                       convolution.dilation[1]),
       EngineOutputDim(input.dimensions[4], convolution.pad[2],
                       filter.dimensions[4], convolution.stride[2],
                       convolution.dilation[2]) >>

\* The engine answers the 2-D query only for a 2-D convolution of a 4-D
\* filter whose channels match the input's.
Conv2dQueryValid(convolution, input, filter) ==
    /\ convolution.rank = 2
    /\ filter.rank = 4
    /\ input.dimensions[2] = filter.dimensions[2] * convolution.group_count

AllOnes(param, rank) == \A k \in 1 .. rank : param[k] = 1

OutputDimensionWithoutPlusOne(input_data, filter_data, conv_data, i) ==
    input_data.dimensions[i] + 2 * conv_data.pad[i - 2]
       - filter_data.dimensions[i]

\* output_dimensions[i] for a spatial axis, axes numbered from 1.
OutputDimension(input_data, filter_data, conv_data, i) ==
    input_data.dimensions[i] + 2 * conv_data.pad[i - 2]
       - filter_data.dimensions[i] + 1

\* int output_dimensions[] = {input[0], filter[0]} and the loop over the
\* spatial axes; the first input rank entries are used.
OutputDimensionsWithInputChannels(input_data, filter_data, conv_data) ==
    [i \in 1 .. input_data.rank |->
        CASE i = 1 -> input_data.dimensions[1]
          [] i = 2 -> input_data.dimensions[2]
          [] OTHER -> OutputDimension(input_data, filter_data, conv_data, i)]

OutputDimensions(input_data, filter_data, conv_data) ==
    [i \in 1 .. input_data.rank |->
        CASE i = 1 -> input_data.dimensions[1]
          [] i = 2 -> filter_data.dimensions[1]
          [] OTHER -> OutputDimension(input_data, filter_data, conv_data, i)]

OutputPlanIgnoringStride(format, input_data, filter_data, conv_data) ==
    IF input_data.rank = 4 THEN [path |-> "4d", stop |-> "none"]
    ELSE [path |-> "Nd",
          stop |-> CASE format # TENSOR_NCHW -> "error_format"
                     [] filter_data.format # TENSOR_NCHW -> "check_filter_format"
                     [] ~AllOnes(conv_data.dilation, conv_data.rank) ->
                           "check_dilation"
                     [] conv_data.group_count # 1 -> "check_group_count"
                     [] OTHER -> "none"]

\* The branch CreateOutputDescriptor takes, and on the non-4-D branch the
\* first of its early exits that applies: the error return for a format
\* other than NCHW, then the CHECKs.
OutputPlan(format, input_data, filter_data, conv_data) ==
    IF input_data.rank = 4 THEN [path |-> "4d", stop |-> "none"]
    ELSE [path |-> "Nd",
          stop |-> CASE format # TENSOR_NCHW -> "error_format"
                     [] filter_data.format # TENSOR_NCHW -> "check_filter_format"
                     [] ~AllOnes(conv_data.dilation, conv_data.rank) ->
                           "check_dilation"
                     [] ~AllOnes(conv_data.stride, conv_data.rank) ->
                           "check_stride"
                     [] conv_data.group_count # 1 -> "check_group_count"
                     [] OTHER -> "none"]

ReturnIfErrorStatusIgnoringStatus(status) == FALSE

\* RETURN_IF_ERROR_STATUS(GetStatus(call)): the function returns the error
\* when the engine did not answer the call with success.
ReturnIfErrorStatus(status) == status # Success

\* The dimensions and strides the output descriptor is set with.
OutputContents(plan, format, input, input_data, filter, filter_data, convolution, conv_data) ==
    IF plan.path = "4d"
    THEN LET nchw == GetConvolution2dForwardOutputDim(convolution, input, filter)
         IN [dimensions |-> nchw,
             strides |-> SetTensor4dStrides(format, nchw[1], nchw[2], nchw[3],
                                            nchw[4])]
    ELSE LET output_dimensions ==
                 OutputDimensions(input_data, filter_data, conv_data)
         IN [dimensions |-> output_dimensions,
             strides |-> GetFullyPackedStrides(output_dimensions,
                                               input_data.rank)]

\* CreateOutputDescriptor(format, input, filter, convolution).  A failed
\* create call or CHECK ends the process; a refused query or set call, or a
\* format other than NCHW off the 4-D path, returns an error and the local
\* `output` is destroyed.
CreateOutputDescriptor4(slot, format, input, filter, convolution, garbage, failing) ==
    /\ ~aborted
    /\ descs[slot] = NoDescriptor
    /\ LET input_data == GetTensorDescriptorData(input, garbage)
           filter_data == GetFilterDescriptorData(filter)
           conv_data == GetConvolutionDescriptorData(convolution)
           plan == OutputPlan(format, input_data, filter_data, conv_data)
           calls == IF plan.path = "4d" THEN {"create", "output_dim", "set"}
                    ELSE {"create", "set"}
           contents == OutputContents(plan, format, input, input_data, filter,
                                      filter_data, convolution, conv_data)
           created == CheckOkStatus(CallStatus(failing, "create"))
           fatal == ~created \/ plan.stop \in {"check_filter_format",
                                               "check_dilation", "check_stride",
                                               "check_group_count"}
           error == \/ plan.stop = "error_format"
                    \/ \E call \in calls \ {"create"} :
                          ReturnIfErrorStatus(CallStatus(failing, call))
           status == CASE ~created -> "aborted"
                       [] plan.stop = "error_format" -> "error"
                       [] fatal -> "aborted"
                       [] error -> "error"
                       [] OTHER -> "ok"
       IN /\ failing \in calls \cup {"none"}
          /\ plan.stop # "none" => failing \in {"create", "none"}
          /\ (failing = "none" /\ plan.stop = "none") =>
                /\ plan.path = "4d" =>
                      Conv2dQueryValid(convolution, input, filter)
                /\ AllPositive(contents.dimensions)
          /\ (failing = "set" /\ plan.path = "4d") =>
                Conv2dQueryValid(convolution, input, filter)
          /\ aborted' = (status = "aborted")
          /\ build' = [fn |-> "CreateOutputDescriptor", slot |-> slot,
                       format |-> format, input |-> input, filter |-> filter,
                       convolution |-> convolution, path |-> plan.path,
                       stop |-> plan.stop, failing |-> failing,
                       written |-> IF /\ plan.path = "Nd"
                                      /\ plan.stop = "none"
                                      /\ failing # "create"
                                   THEN PackedStrideWrites(input_data.rank)
                                   ELSE {},
                       status |-> status]
          /\ descs' = IF status = "ok"
                      THEN [descs EXCEPT ![slot] =
                              TensorNative(slot, input_data.data_type,
                                           contents.dimensions, contents.strides,
                                           Populated(failing, calls),
                                           [data_type |-> input_data.data_type,
                                            dimension |-> contents.dimensions,
                                            stride |-> contents.strides,
                                            format |-> Unset])]
                      ELSE descs
    /\ UNCHANGED << device_memory_limit_bytes, allocated_bytes, device_buffers,
                    report_count, last_call, algoVars, runVars, createVars,
                    transferVars, equal_call, dataVars >>

\* The explicit outputs a convolution config may carry.
ExplicitOutputs == { proto \in TensorConfigs : Len(proto.dimension) <= 2 }

\* CreateOutputDescriptor(proto, input, filter, convolution): an output the
\* config gives is built as a tensor; otherwise the descriptor is derived
\* with the format of the config's input.
CreateOutputDescriptorOfConfig(slot, has_output, output, format, input, filter, convolution, garbage, failing) ==
    IF has_output
    THEN CreateTensorDescriptor(slot, output, failing)
    ELSE CreateOutputDescriptor4(slot, format, input, filter, convolution,
                                 garbage, failing)

(***************************************************************************)
(* Structural equality.  Each comparison reads both descriptors back and   *)
(* compares the two records with the struct's operator==, which looks at   *)
(* the first `rank` entries of each array.                                 *)
(***************************************************************************)
TensorDescriptorDataEqualOverWholeArrays(left, right) ==
    /\ left.data_type = right.data_type
    /\ left.rank = right.rank
    /\ left.dimensions = right.dimensions
    /\ left.strides = right.strides

\* operator==(const TensorDescriptorData&, const TensorDescriptorData&)
TensorDescriptorDataEqual(left, right) ==
    /\ left.data_type = right.data_type
    /\ left.rank = right.rank
    /\ \A k \in 1 .. left.rank : left.dimensions[k] = right.dimensions[k]
    /\ \A k \in 1 .. left.rank : left.strides[k] = right.strides[k]

\* operator==(const FilterDescriptorData&, const FilterDescriptorData&)
FilterDescriptorDataEqual(left, right) ==
    /\ left.data_type = right.data_type
    /\ left.format = right.format
    /\ left.rank = right.rank
    /\ \A k \in 1 .. left.rank : left.dimensions[k] = right.dimensions[k]

\* operator==(const ConvolutionDescriptorData&,
\*            const ConvolutionDescriptorData&)
ConvolutionDescriptorDataEqual(left, right) ==
    /\ left.convolution_mode = right.convolution_mode
    /\ left.compute_type = right.compute_type
    /\ left.rank = right.rank
    /\ \A k \in 1 .. left.rank : left.pad[k] = right.pad[k]
    /\ \A k \in 1 .. left.rank : left.stride[k] = right.stride[k]
    /\ \A k \in 1 .. left.rank : left.dilation[k] = right.dilation[k]

\* The comparison's outcome: the read-back calls are under CHECK_OK_STATUS.
EqualCall(fn, left, right, garbage, failing, result) ==
    LET ok == ChecksPass(failing, {"get"})
    IN /\ ~aborted
       /\ failing \in {"none", "get"}
       /\ aborted' = ~ok
       /\ equal_call' = [fn |-> fn, left |-> left, right |-> right,
                         garbage |-> garbage, failing |-> failing,
                         status |-> IF ok THEN "ok" ELSE "aborted",
                         result |-> ok /\ result]
       /\ UNCHANGED << device_memory_limit_bytes, allocated_bytes,
                       device_buffers, report_count, last_call, algoVars,
                       runVars, createVars, transferVars, descs, build,
                       dataVars >>

TensorDescriptorEqual(left, right, garbage_left, garbage_right, failing) ==
    /\ descs[left].kind = "tensor"
    /\ descs[right].kind = "tensor"
    /\ EqualCall("TensorDescriptorEqual", left, right,
                 << garbage_left, garbage_right >>, failing,
                 TensorDescriptorDataEqual(
                    GetTensorDescriptorData(descs[left], garbage_left),
                    GetTensorDescriptorData(descs[right], garbage_right)))

FilterDescriptorEqual(left, right, failing) ==
    /\ descs[left].kind = "filter"
    /\ descs[right].kind = "filter"
    /\ EqualCall("FilterDescriptorEqual", left, right, << 0, 0 >>, failing,
                 FilterDescriptorDataEqual(
                    GetFilterDescriptorData(descs[left]),
                    GetFilterDescriptorData(descs[right])))

ConvolutionDescriptorEqual(left, right, failing) ==
    /\ descs[left].kind = "convolution"
    /\ descs[right].kind = "convolution"
    /\ EqualCall("ConvolutionDescriptorEqual", left, right, << 0, 0 >>,
                 failing,
                 ConvolutionDescriptorDataEqual(
                    GetConvolutionDescriptorData(descs[left]),
                    GetConvolutionDescriptorData(descs[right])))

\* The configs the compared descriptors are built from.
EqualDataTypes == {"CUDNN_DATA_FLOAT", "CUDNN_DATA_HALF"}

EqualDimensionLists == SeqsOfLen(1 .. MaxDim, 1) \cup SeqsOfLen(1 .. MaxDim, 2)

EqualTensorConfigs ==
    UNION { { [data_type |-> t, dimension |-> d, stride |-> s, format |-> f] :
                t \in EqualDataTypes,
                s \in StrideLists(d),
                f \in {Unset} \cup TensorFormats } :
            d \in EqualDimensionLists }

EqualFilterConfigs ==
    { [data_type |-> t, format |-> f, dimension |-> d] :
        t \in EqualDataTypes, f \in TensorFormats, d \in EqualDimensionLists }

EqualConvolutionConfigs ==
    { [pad |-> p, filter_stride |-> fs, dilation |-> d, mode |-> m,
       compute_mode |-> cm, group_count |-> g, math_type |-> mt] :
        p \in { << 0 >>, << 0, 1 >> },
        fs \in { << >>, << 2 >> },
        d \in { << >>, << 2 >> },
        m \in ConvolutionModes, cm \in EqualDataTypes, g \in {1, 2},
        mt \in MathTypes }

(***************************************************************************)
(* Element counts: GetTensorNumElements and GetFilterNumElements.          *)
(***************************************************************************)
MaxStride == 3

\* Descriptor contents the count functions are applied to: any strides,
\* zero (broadcast), overlapping and gapped ones included.
CountedTensors ==
    UNION { { [data_type |-> "CUDNN_DATA_FLOAT", rank |-> n, dimensions |-> d,
               strides |-> st] :
                d \in SeqsOfLen(1 .. MaxDim, n),
                st \in SeqsOfLen(0 .. MaxStride, n) } :
            n \in 1 .. 3 }

CountedFilters ==
    UNION { { [data_type |-> "CUDNN_DATA_FLOAT", format |-> TENSOR_NCHW,
               rank |-> n, dimensions |-> d] :
                d \in SeqsOfLen(1 .. MaxDim, n) } :
            n \in 1 .. 3 }

\* for (i = 0; i < data.rank; ++i) result += (dimensions[i] - 1) * strides[i];
\* in size_t, on axes numbered from 1.
RECURSIVE TensorNumElementsLoop(_, _, _)
TensorNumElementsLoop(data, i, result) ==
    IF i > data.rank THEN result
    ELSE TensorNumElementsLoop(
            data, i + 1,
            (result + ((data.dimensions[i] - 1) % SizeMod) * data.strides[i])
               % SizeMod)

RECURSIVE FilterNumElementsLoop(_, _, _)
FilterNumElementsLoop(data, i, result) ==
    IF i > data.rank THEN result
    ELSE FilterNumElementsLoop(data, i + 1,
                               (result * data.dimensions[i]) % SizeMod)

TensorNumElementsAsProduct(tensor, garbage) ==
    FilterNumElementsLoop(GetTensorDescriptorData(tensor, garbage), 1, 1)

GetTensorNumElements(tensor, garbage) ==
    TensorNumElementsLoop(GetTensorDescriptorData(tensor, garbage), 1, 1)

GetFilterNumElements(filter) ==
    FilterNumElementsLoop(GetFilterDescriptorData(filter), 1, 1)

\* A caller asks for the element count of a tensor or of a filter; a failed
\* read-back ends the process.
CallGetTensorNumElements(tensor, garbage, failing) ==
    /\ ~aborted
    /\ failing \in {"none", "get"}
    /\ aborted' = ~ChecksPass(failing, {"get"})
    /\ data_call' = [fn |-> "GetTensorNumElements", tensor |-> tensor,
                     garbage |-> garbage, failing |-> failing,
                     result |-> IF ChecksPass(failing, {"get"})
                                THEN GetTensorNumElements(tensor, garbage)
                                ELSE 0]
    /\ UNCHANGED << device_memory_limit_bytes, allocated_bytes, device_buffers,
                    report_count, last_call, algoVars, runVars, createVars,
                    buildVars, transferVars >>

CallGetFilterNumElements(filter, failing) ==
    /\ ~aborted
    /\ failing \in {"none", "get"}
    /\ aborted' = ~ChecksPass(failing, {"get"})
    /\ data_call' = [fn |-> "GetFilterNumElements", filter |-> filter,
                     failing |-> failing,
                     result |-> IF ChecksPass(failing, {"get"})
                                THEN GetFilterNumElements(filter)
                                ELSE 0]
    /\ UNCHANGED << device_memory_limit_bytes, allocated_bytes, device_buffers,
                    report_count, last_call, algoVars, runVars, createVars,
                    buildVars, transferVars >>

(***************************************************************************)
(* ConvertDeviceDataVisitor: the conversion of a buffer of one element     *)
(* kind into a buffer of another.                                          *)
(***************************************************************************)
MaxBytes == 8

FloatKinds == {"CUDNN_DATA_HALF", "CUDNN_DATA_FLOAT", "CUDNN_DATA_DOUBLE"}

Scales == {0, 1, 2}

\* sizeof(T) of the element type of a kind.
SizeOf(data_type) ==
    CASE data_type = "CUDNN_DATA_HALF" -> 2
      [] data_type = "CUDNN_DATA_FLOAT" -> 4
      [] data_type = "CUDNN_DATA_DOUBLE" -> 8
      [] OTHER -> 1

\* A source buffer long enough for every conversion: element k holds k.
SourceBuffer(length) == [k \in 1 .. length |-> k]

\* ConvertDeviceData(scale, dst, src, num_elements): the elements written.
ConvertDeviceData(scale, src, num_elements) ==
    [k \in 1 .. num_elements |-> scale * src[k]]

ConvertDeviceDataVisitorBySourceSize(dst_type, src_type, dst_size_in_bytes, scale) ==
    IF dst_type = src_type
    THEN [fatal |-> TRUE, num_elements |-> 0, scale |-> scale]
    ELSE [fatal |-> FALSE,
          num_elements |-> dst_size_in_bytes \div SizeOf(src_type),
          scale |-> scale]

\* The overload for two different element types calls ConvertDeviceData;
\* the overload for one type, the more specialised one, is LOG(FATAL).
ConvertDeviceDataVisitor(dst_type, src_type, dst_size_in_bytes, scale) ==
    IF dst_type = src_type
    THEN [fatal |-> TRUE, num_elements |-> 0, scale |-> scale]
    ELSE [fatal |-> FALSE,
          num_elements |-> dst_size_in_bytes \div SizeOf(dst_type),
          scale |-> scale]

\* visit(ConvertDeviceDataVisitor{dst_size_in_bytes, scale}, dst, src) on
\* pointers of the given kinds.
VisitConvertDeviceData(dst_type, src_type, dst_size_in_bytes, scale) ==
    LET call == ConvertDeviceDataVisitor(dst_type, src_type, dst_size_in_bytes,
                                         scale)
    IN /\ ~aborted
       /\ aborted' = call.fatal
       /\ data_call' = [fn |-> "ConvertDeviceDataVisitor",
                        dst_type |-> dst_type, src_type |-> src_type,
                        dst_size_in_bytes |-> dst_size_in_bytes,
                        scale |-> scale, fatal |-> call.fatal,
                        num_elements |-> call.num_elements,
                        written |-> IF call.fatal THEN << >>
                                    ELSE ConvertDeviceData(
                                            call.scale,
                                            SourceBuffer(MaxBytes),
                                            call.num_elements)]
       /\ UNCHANGED << device_memory_limit_bytes, allocated_bytes,
                       device_buffers, report_count, last_call, algoVars,
                       runVars, createVars, buildVars, transferVars >>

(***************************************************************************)
(* ConvertAndTransformTensor, followed from entry to return with the       *)
(* values of the buffers: dst = alpha * src + beta * dst, through a        *)
(* temporary buffer of the destination's element kind when the kinds       *)
(* differ.  Element values are integers, which every kind holds exactly.   *)
(***************************************************************************)
TransformKinds == FloatKinds \cup {"CUDNN_DATA_INT8"}

\* Fully packed source tensors of one and two axes.
TransformedTensors ==
    { [rank |-> Len(d), dimensions |-> d, strides |-> GetFullyPackedStrides(d, Len(d))] :
        d \in {<< 2 >>, << 1, 2 >>, << 2, 2 >>} }

\* The destination buffer before the call: element k holds 10 + k.
DestinationBuffer(length) == [k \in 1 .. length |-> 10 + k]

\* cudnnGetTensorSizeInBytes: the elements the descriptor spans, in bytes.
GetTensorSizeInBytes(tensor) ==
    GetTensorNumElements(tensor, 0) * SizeOf(tensor.data_type)

\* GetPointerVariant: a pointer for float, double and half, LOG(FATAL) for
\* every other kind.
GetPointerVariant(data_type) ==
    IF data_type \in FloatKinds
    THEN [fatal |-> FALSE, data_type |-> data_type]
    ELSE [fatal |-> TRUE, data_type |-> data_type]

\* cudnnTransformTensor: dst = alpha * src + beta * dst, element by element.
TransformTensorValues(alpha, beta, src, dst) ==
    [k \in DOMAIN dst |-> alpha * src[k] + beta * dst[k]]

\* The temporary buffer of `length` elements after the conversion wrote its
\* first Len(converted) elements.
TempBuffer(length, converted) ==
    [k \in 1 .. length |-> IF k <= Len(converted) THEN converted[k] ELSE 0]

ConvertedTransformFactorsScalingTwice(alpha, beta) ==
    [alpha |-> alpha, beta |-> beta]

\* The factors of the TransformTensor call that follows the conversion.
ConvertedTransformFactors(alpha, beta) == [alpha |-> 1, beta |-> beta]

NoTemp ==
    [data_type |-> Unset, rank |-> 0, dimensions |-> << >>, strides |-> << >>,
     size |-> 0]

NoVisit == [fatal |-> FALSE, num_elements |-> 0, scale |-> 0]

NoTransform == [alpha |-> 0, beta |-> 0, src |-> "none"]

CallConvertAndTransformTensor(alpha, beta, src_type, dst_type, src, dst_rank, failing) ==
    LET src_desc == [data_type |-> src_type, rank |-> src.rank,
                     dimensions |-> src.dimensions, strides |-> src.strides]
        n == GetTensorNumElements(src_desc, 0)
        src_values == SourceBuffer(n)
        dst_before == DestinationBuffer(n)
        same == src_type = dst_type
        rank_ok == src.rank = dst_rank
        temp_desc == [data_type |-> dst_type, rank |-> src.rank,
                      dimensions |-> src.dimensions, strides |-> src.strides]
        temp_size == GetTensorSizeInBytes(temp_desc)
        has_desc == ~same /\ rank_ok /\ failing # "set"
        has_temp == has_desc /\ failing # "allocate"
        pointers_fatal ==
            \/ GetPointerVariant(dst_type).fatal
            \/ GetPointerVariant(src_type).fatal
        visited == has_temp /\ ~pointers_fatal
        visit == IF visited
                 THEN ConvertDeviceDataVisitor(dst_type, src_type, temp_size,
                                               alpha)
                 ELSE NoVisit
        temp_values ==
            IF visited /\ ~visit.fatal
            THEN TempBuffer(n, ConvertDeviceData(visit.scale,
                                                 SourceBuffer(8 * n),
                                                 visit.num_elements))
            ELSE TempBuffer(n, << >>)
        factors == ConvertedTransformFactors(alpha, beta)
        transform ==
            CASE same -> [alpha |-> alpha, beta |-> beta, src |-> "src_data"]
              [] visited /\ ~visit.fatal /\ failing # "synchronize" ->
                    [alpha |-> factors.alpha, beta |-> factors.beta,
                     src |-> "temp_data"]
              [] OTHER -> NoTransform
        fatal == \/ ~same /\ ~rank_ok
                 \/ has_temp /\ pointers_fatal
                 \/ visit.fatal
        status == CASE fatal -> "aborted"
                    [] failing # "none" -> "error"
                    [] OTHER -> "ok"
        dst_after ==
            CASE status # "ok" -> dst_before
              [] same -> TransformTensorValues(transform.alpha, transform.beta,
                                               src_values, dst_before)
              [] OTHER -> TransformTensorValues(transform.alpha, transform.beta,
                                                temp_values, dst_before)
    IN /\ ~aborted
       /\ same => failing \in {"none", "transform"}
       /\ ~same /\ ~rank_ok => failing = "none"
       /\ ~same /\ rank_ok /\ pointers_fatal =>
             failing \in {"none", "set", "allocate"}
       /\ failing # "allocate" => TRUE \in AllocationOutcomes(temp_size)
       /\ aborted' = fatal
       /\ data_call' =
             [fn |-> "ConvertAndTransformTensor", alpha |-> alpha,
              beta |-> beta, src_type |-> src_type, dst_type |-> dst_type,
              src |-> src, dst_rank |-> dst_rank, failing |-> failing,
              temp_desc |-> IF has_desc
                            THEN [data_type |-> dst_type, rank |-> src.rank,
                                  dimensions |-> src.dimensions,
                                  strides |-> src.strides, size |-> temp_size]
                            ELSE NoTemp,
              has_temp |-> has_temp,
              ledger_before |-> allocated_bytes,
              ledger_peak |-> IF has_temp THEN allocated_bytes + temp_size
                              ELSE allocated_bytes,
              visited |-> visited, visit |-> visit,
              transform |-> transform, src_values |-> src_values,
              dst_before |-> dst_before, dst_after |-> dst_after,
              status |-> status]
       \* The temporary buffer is a local: it is released when the function
       \* returns; a fatal check ends the process with the buffer allocated.
       /\ allocated_bytes' = IF has_temp /\ fatal
                             THEN allocated_bytes + temp_size
                             ELSE allocated_bytes
       /\ UNCHANGED << device_memory_limit_bytes, device_buffers,
                       report_count, last_call, algoVars, runVars, createVars,
                       buildVars, transferVars >>

InitBudget ==
    /\ device_memory_limit_bytes = 0
    /\ allocated_bytes = 0
    /\ device_buffers = [id \in BufferIds |-> NoBuffer]
    /\ aborted = FALSE
    /\ report_count = 0
    /\ last_call = NoCall

InitAlgos ==
    /\ enumeration = EnumerationIdle
    /\ find = FindIdle

InitRun ==
    /\ size_call = NoCall
    /\ run_call = NoCall

InitCreate ==
    /\ natives = << >>
    /\ owners = [o \in Owners |-> Null]
    /\ create = CreateIdle

InitTransfer ==
    /\ device_queue = << >>
    /\ events = {}
    /\ transfer = TransferIdle

InitBuild ==
    /\ descs = [slot \in Slots |-> NoDescriptor]
    /\ build = NoBuild
    /\ equal_call = NoCall
    /\ data_call = NoCall

Init ==
    InitBudget /\ InitAlgos /\ InitRun /\ InitCreate /\ InitTransfer
       /\ InitBuild

NextBudget ==
    \/ \E device_id \in DeviceIds, mb \in FlagValues :
          ValidateDeviceMemoryLimit(device_id, mb)
    \/ \E id \in BufferIds, bytes \in AllocSizes : AllocateDeviceMemory(id, bytes)
    \/ \E id \in BufferIds : ReleaseDeviceMemory(id)
    \/ CallGetAvailable
    \/ \E has_limit \in BOOLEAN, workspace_limit \in AllocSizes :
          CallGetWorkspaceLimit(has_limit, workspace_limit)

NextEnumerate ==
    \/ \E direction \in Directions \cup {OtherDirection},
          workspace_limit \in 0 .. MaxCost :
          GetSupportedConvolutionAlgos(direction, workspace_limit)
    \/ \E response \in SizeResponses : GetSupportedConvolutionAlgosImpl(response)

NextFind ==
    \/ \E direction \in Directions \cup {OtherDirection},
          workspace_limit \in AllocSizes, allocated_ok \in BOOLEAN :
          FindConvolutionAlgo(direction, workspace_limit, allocated_ok)
    \/ \E response \in {[status |-> "none"]} \cup
                        UNION { FindResponses(d, 1) : d \in Directions } :
          FindConvolutionAlgoSwitch(response)
    \/ find.pc = "idle" /\
          \E id \in BufferIds, bytes \in AllocSizes : AllocateDeviceMemory(id, bytes)

NextRun ==
    \/ \E algo \in AllAlgos, response \in SizeResponses :
          CallGetWorkspaceSize(algo, response)
    \/ \E input_type \in DataTypes, filter_type \in DataTypes,
          output_type \in DataTypes, status \in {Success, NotSupported} :
          CallRunConvolution(input_type, filter_type, output_type, status)

NextCreate ==
    \/ create.pc = "idle" /\ natives = << >> /\
          \E id \in BufferIds, bytes \in AllocSizes : AllocateDeviceMemory(id, bytes)
    \/ \E ok \in BOOLEAN : CreateCudnnHandle(ok)
    \/ \E grouped_unsupported \in BOOLEAN : CreateConvolution(grouped_unsupported)
    \/ \E ok \in BOOLEAN : CreateConvolutionDescriptors(ok)
    \/ \E has_output \in BOOLEAN, outcome \in {"ok", "error", "fatal"},
          failing \in 0 .. MaxFailing :
          CreateOutputDescriptor(has_output, outcome, failing)
    \/ \E bytes \in AllocSizes, outcome \in {"ok", "error", "fatal"},
          failing \in 0 .. MaxFailing :
          CreateData(bytes, outcome, failing)
    \/ \E failing \in 0 .. MaxFailing : CallerScopeExit(failing)

NextTransfer ==
    \/ IssueDeviceWork
    \/ DeviceCompletes
    \/ \E data_type \in DataTypes, print_values \in BOOLEAN :
          GetTensorDebugString(data_type, print_values)
    \/ \E ok \in BOOLEAN : PrintVisitorCopy(ok)
    \/ \E ok \in BOOLEAN : PrintVisitorConvert(ok)
    \/ \E ok \in BOOLEAN : PrintVisitorPrint(ok)
    \/ \E src_type \in DataTypes, dst_type \in DataTypes, bytes \in AllocSizes,
          outcome \in {"ok", "error", "alloc_failed", "rank_mismatch"} :
          ConvertAndTransformTensor(src_type, dst_type, bytes, outcome)
    \/ ConvertDeviceDataVisit
    \/ \E sync_ok \in BOOLEAN, transform_ok \in BOOLEAN :
          SynchronizeAndTransform(sync_ok, transform_ok)

\* The caller initialises `slot` with a build; it makes no further build
\* once one has returned an error.
BuildReady(slot) ==
    /\ ~aborted
    /\ descs[slot] = NoDescriptor
    /\ build.fn # "none" => build.status = "ok"

NextBuild ==
    \/ BuildReady("left") /\
          \E proto \in TensorConfigs, failing \in {"none", "create", "set"} :
             CreateTensorDescriptor("left", proto, failing)
    \/ BuildReady("left") /\
          \E proto \in FilterConfigs, failing \in {"none", "create", "set"} :
             CreateFilterDescriptor("left", proto, failing)
    \/ BuildReady("left") /\
          \E config \in ConvolutionConfigs,
             failing \in {"none", "create", "set", "group", "math"} :
             CreateConvolutionDescriptor("left", config, failing)
    \/ BuildReady("left") /\
          \E format \in TensorFormats, input \in OutputInputs,
             filter \in OutputFilters, convolution \in OutputConvolutions,
             garbage \in Garbage,
             failing \in {"none", "create", "output_dim", "set"} :
             CreateOutputDescriptorOfConfig("left", FALSE, Unset, format,
                                            input, filter, convolution,
                                            garbage, failing)
    \/ BuildReady("left") /\
          \E output \in ExplicitOutputs, failing \in {"none", "create", "set"} :
             CreateOutputDescriptorOfConfig("left", TRUE, output, Unset,
                                            Unset, Unset, Unset, 0, failing)

\* The second descriptor is built once the first one, of the same kind, is.
EqualBuildReady(slot, kind) ==
    /\ BuildReady(slot)
    /\ slot = "right" => descs["left"].kind = kind

NextEqual ==
    \/ \E slot \in Slots :
          EqualBuildReady(slot, "tensor") /\
             \E proto \in EqualTensorConfigs :
                CreateTensorDescriptor(slot, proto, "none")
    \/ \E slot \in Slots :
          EqualBuildReady(slot, "filter") /\
             \E proto \in EqualFilterConfigs :
                CreateFilterDescriptor(slot, proto, "none")
    \/ \E slot \in Slots :
          EqualBuildReady(slot, "convolution") /\
             \E config \in EqualConvolutionConfigs :
                CreateConvolutionDescriptor(slot, config, "none")
    \/ \E left \in Slots, right \in Slots, garbage_left \in Garbage,
          garbage_right \in Garbage, failing \in {"none", "get"} :
          TensorDescriptorEqual(left, right, garbage_left, garbage_right,
                                failing)
    \/ \E left \in Slots, right \in Slots, failing \in {"none", "get"} :
          FilterDescriptorEqual(left, right, failing)
    \/ \E left \in Slots, right \in Slots, failing \in {"none", "get"} :
          ConvolutionDescriptorEqual(left, right, failing)

\* One call of an element-count or conversion function is followed.
DataReady == ~aborted /\ data_call = NoCall

NextData ==
    \/ DataReady /\
          \E tensor \in CountedTensors, garbage \in Garbage,
             failing \in {"none", "get"} :
             CallGetTensorNumElements(tensor, garbage, failing)
    \/ DataReady /\
          \E filter \in CountedFilters, failing \in {"none", "get"} :
             CallGetFilterNumElements(filter, failing)
    \/ DataReady /\
          \E dst_type \in FloatKinds, src_type \in FloatKinds,
             dst_size_in_bytes \in 0 .. MaxBytes, scale \in Scales :
             VisitConvertDeviceData(dst_type, src_type, dst_size_in_bytes,
                                    scale)
    \/ DataReady /\
          \E alpha \in Scales, beta \in Scales, src_type \in TransformKinds,
             dst_type \in TransformKinds, src \in TransformedTensors,
             dst_rank \in 1 .. 2,
             failing \in {"none", "set", "allocate", "synchronize",
                          "transform"} :
             CallConvertAndTransformTensor(alpha, beta, src_type, dst_type,
                                           src, dst_rank, failing)

Next ==
    NextBudget \/ NextEnumerate \/ NextFind \/ NextRun \/ NextCreate
       \/ NextTransfer \/ NextBuild \/ NextEqual \/ NextData

Spec == Init /\ [][Next]_vars
SpecBudget == Init /\ [][NextBudget]_vars
SpecEnumerate == Init /\ [][NextEnumerate]_vars
SpecFind == Init /\ [][NextFind]_vars
SpecRun == Init /\ [][NextRun]_vars
SpecCreate == Init /\ [][NextCreate]_vars
SpecTransfer == Init /\ [][NextTransfer]_vars
SpecBuild == Init /\ [][NextBuild]_vars
SpecEqual == Init /\ [][NextEqual]_vars
SpecData == Init /\ [][NextData]_vars

(***************************************************************************)
(* The budget arithmetic written out on unbounded integers, for the claims *)
(* to compare the code's size_t results against.                           *)
(***************************************************************************)
ClampedDifference(limit, allocated) ==
    IF allocated >= limit THEN 0 ELSE limit - allocated

AvailableNow ==
    GetAvailableDeviceMemoryBytes(device_memory_limit_bytes, allocated_bytes)

\* C1: whatever allocations and releases came before, a call of
\* GetAvailableDeviceMemoryBytes returns limit - allocated for the allocated
\* byte count read at the call, 0 whenever allocated >= limit, and never a
\* wrapped-around value above the limit.
C1_AvailableIsClamped ==
    last_call.fn = "GetAvailableDeviceMemoryBytes" =>
        /\ last_call.result = ClampedDifference(last_call.limit, last_call.allocated)
        /\ last_call.allocated >= last_call.limit => last_call.result = 0
        /\ last_call.result \in 0 .. last_call.limit

C1_Witness ==
    /\ last_call.fn = "GetAvailableDeviceMemoryBytes"
    /\ last_call.limit > 0
    /\ last_call.allocated > last_call.limit
    /\ last_call.result = 0

\* C2: with the limit unchanged, a step that allocates k bytes takes the
\* available bytes from v to max(0, v - k), and a step that releases k bytes
\* while allocated is at or below the limit takes them from v back to v + k.
C2_BudgetMonotone ==
    [][ device_memory_limit_bytes' = device_memory_limit_bytes =>
          /\ allocated_bytes' >= allocated_bytes =>
                AvailableNow' =
                   IF AvailableNow - (allocated_bytes' - allocated_bytes) < 0
                   THEN 0
                   ELSE AvailableNow - (allocated_bytes' - allocated_bytes)
          /\ (allocated_bytes' < allocated_bytes
                /\ allocated_bytes <= device_memory_limit_bytes) =>
                AvailableNow' = AvailableNow + (allocated_bytes - allocated_bytes')
      ]_vars

C2_Witness ==
    /\ last_call.fn = "GetAvailableDeviceMemoryBytes"
    /\ last_call.limit = device_memory_limit_bytes
    /\ last_call.result > 0
    /\ allocated_bytes > last_call.allocated
    /\ allocated_bytes > device_memory_limit_bytes
    /\ AvailableNow = 0

\* C3: GetWorkspaceLimit returns the available bytes when the config has no
\* workspace limit, the configured limit c when c <= available (c equal to
\* available included), and an error without a value when c > available; so
\* every value it returns is at most the bytes available at the call.
C3_WorkspaceLimitWithinBudget ==
    last_call.fn = "GetWorkspaceLimit" =>
        LET available == ClampedDifference(last_call.limit, last_call.allocated) IN
        /\ ~last_call.has_limit =>
              last_call.ok /\ last_call.result = available
        /\ (last_call.has_limit /\ last_call.workspace_limit <= available) =>
              last_call.ok /\ last_call.result = last_call.workspace_limit
        /\ (last_call.has_limit /\ last_call.workspace_limit > available) =>
              ~last_call.ok /\ last_call.result = NoValue
        /\ last_call.ok => last_call.result \in 0 .. available

C3_Witness ==
    /\ last_call.fn = "GetWorkspaceLimit"
    /\ last_call.has_limit
    /\ last_call.workspace_limit > 0
    /\ last_call.allocated > 0
    /\ last_call.workspace_limit =
          ClampedDifference(last_call.limit, last_call.allocated)
    /\ last_call.ok
    /\ last_call.result = last_call.workspace_limit

(***************************************************************************)
(* Claims about the algorithm catalog, the search and the dispatch.        *)
(***************************************************************************)
QueriedOk(v) ==
    /\ enumeration.queries[v + 1].ok
    /\ enumeration.queries[v + 1].value <= enumeration.workspace_limit

\* C4: when GetSupportedConvolutionAlgos returns for a direction with K
\* identifiers, it has queried the workspace size of each identifier 0..K-1
\* exactly once, and its result holds exactly the identifiers whose query
\* succeeded with a size <= workspace_limit, each tagged with the direction,
\* in strictly ascending order; while it runs, it has queried 0..i-1.
C4_EnumerationComplete ==
    /\ enumeration.pc \in {"loop", "returned"} =>
          /\ Len(enumeration.queries) = enumeration.i
          /\ \A q \in 1 .. Len(enumeration.queries) :
                /\ enumeration.queries[q].algo =
                      ConvolutionAlgo(AlgoType(enumeration.direction), q - 1)
                /\ enumeration.queries[q].ok \/
                      enumeration.queries[q].value = NoValue
          /\ \A r \in 1 .. Len(enumeration.result) :
                /\ enumeration.result[r].type = AlgoType(enumeration.direction)
                /\ enumeration.result[r].value \in 0 .. (enumeration.i - 1)
                /\ QueriedOk(enumeration.result[r].value)
          /\ \A a, b \in 1 .. Len(enumeration.result) :
                a < b => enumeration.result[a].value < enumeration.result[b].value
          /\ \A v \in 0 .. (enumeration.i - 1) :
                QueriedOk(v) =>
                   \E r \in 1 .. Len(enumeration.result) :
                      enumeration.result[r].value = v
    /\ enumeration.pc = "returned" =>
          enumeration.i = AlgoCount(enumeration.direction)

C4_Witness ==
    /\ enumeration.pc = "returned"
    /\ enumeration.direction = "CONVOLUTION_BWD_DATA"
    /\ enumeration.workspace_limit = 1
    /\ ~enumeration.queries[1].ok
    /\ enumeration.queries[2].ok /\ enumeration.queries[2].value = 1
    /\ enumeration.queries[3].ok /\ enumeration.queries[3].value = 2
    /\ enumeration.queries[4].ok /\ enumeration.queries[4].value = 0
    /\ enumeration.result = << ConvolutionAlgo(BwdDataAlgo, 1),
                               ConvolutionAlgo(BwdDataAlgo, 3) >>

\* C5: FindConvolutionAlgo asks the engine for exactly one candidate.  It
\* returns an algorithm only when the engine call succeeded, the reported
\* count is non-zero and the candidate's status is success, and then the
\* algorithm is the candidate's, tagged with the requested direction; when
\* the engine reports a zero count or a candidate whose status is not
\* success, the result is the error "No supported algorithm"; a result is
\* never an algorithm together with an error.
C5_FindReturnsCandidateOrError ==
    find.pc = "returned" =>
        /\ find.entry # "none" => find.requested = 1
        /\ find.ok =>
              /\ find.direction \in Directions
              /\ find.entry = FindEngineCall(find.direction).entry
              /\ find.engine_status = Success
              /\ find.num_algorithms # 0
              /\ find.perf_status = Success
              /\ find.algo.type = AlgoType(find.direction)
              /\ find.algo.value \in 0 .. (AlgoCount(find.direction) - 1)
        /\ (find.engine_status = Success
              /\ find.num_algorithms # 0 /\ find.perf_status = Success) => find.ok
        /\ (find.engine_status = Success
              /\ (find.num_algorithms = 0 \/ find.perf_status # Success)) =>
              ~find.ok /\ find.error = "No supported algorithm"
        /\ find.ok <=> find.error = "none"
        /\ find.ok <=> find.algo # NoAlgo

C5_Witness ==
    /\ find.pc = "returned"
    /\ find.direction = "CONVOLUTION_BWD_FILTER"
    /\ find.engine_status = Success
    /\ find.num_algorithms = 1
    /\ find.perf_status # Success
    /\ find.error = "No supported algorithm"
    /\ find.algo = NoAlgo

(***************************************************************************)
(* The descriptor whose element kind decides the storage of alpha and beta *)
(* for each algorithm type, and the descriptor order of each direction.    *)
(***************************************************************************)
RelevantType(call) ==
    CASE call.algo.type = FwdAlgo -> call.output_type
      [] call.algo.type = BwdDataAlgo -> call.input_type
      [] call.algo.type = BwdFilterAlgo -> call.filter_type

TensorOrder(algo_type) ==
    CASE algo_type = FwdAlgo -> << "input", "filter", "output" >>
      [] algo_type = BwdDataAlgo -> << "filter", "output", "input" >>
      [] algo_type = BwdFilterAlgo -> << "input", "output", "filter" >>

IsTensor(d) == d # "convolution"

\* C6: RunConvolution stores alpha and beta both as a double exactly when
\* the relevant descriptor's element kind is double, and both as a float for
\* every other kind; the relevant descriptor is the output for a forward
\* algorithm, the input for backward data and the filter for backward
\* filter, whatever the kinds of the other two descriptors.
C6_ScalingStorageFollowsDirection ==
    run_call # NoCall =>
        /\ run_call.alpha_scale = run_call.beta_scale
        /\ run_call.alpha_scale \in {"double_value", "float_value"}
        /\ run_call.alpha_scale = "double_value" <=>
              RelevantType(run_call) = "CUDNN_DATA_DOUBLE"

C6_Witness ==
    /\ run_call # NoCall
    /\ run_call.algo.type = BwdDataAlgo
    /\ run_call.input_type = "CUDNN_DATA_HALF"
    /\ run_call.filter_type = "CUDNN_DATA_DOUBLE"
    /\ run_call.output_type = "CUDNN_DATA_DOUBLE"
    /\ run_call.alpha_scale = "float_value"
    /\ run_call.beta_scale = "float_value"

\* C7: for every algorithm, GetWorkspaceSize and RunConvolution both call the
\* engine entry point of the algorithm's own direction and pass the
\* descriptors in the same order: (input, filter, output) for forward,
\* (filter, output, input) for backward data, (input, output, filter) for
\* backward filter; the tensor RunConvolution writes, the last one passed,
\* is the output, the input and the filter respectively.
C7_DispatchConsistent ==
    /\ size_call # NoCall =>
          /\ size_call.entry =
                (CASE size_call.algo.type = FwdAlgo ->
                        "cudnnGetConvolutionForwardWorkspaceSize"
                   [] size_call.algo.type = BwdDataAlgo ->
                        "cudnnGetConvolutionBackwardDataWorkspaceSize"
                   [] size_call.algo.type = BwdFilterAlgo ->
                        "cudnnGetConvolutionBackwardFilterWorkspaceSize")
          /\ SelectSeq(size_call.descriptors, IsTensor) =
                TensorOrder(size_call.algo.type)
    /\ run_call # NoCall =>
          /\ run_call.entry =
                (CASE run_call.algo.type = FwdAlgo -> "cudnnConvolutionForward"
                   [] run_call.algo.type = BwdDataAlgo ->
                        "cudnnConvolutionBackwardData"
                   [] run_call.algo.type = BwdFilterAlgo ->
                        "cudnnConvolutionBackwardFilter")
          /\ SelectSeq(run_call.descriptors, IsTensor) =
                TensorOrder(run_call.algo.type)
          /\ run_call.descriptors[Len(run_call.descriptors)] =
                (CASE run_call.algo.type = FwdAlgo -> "output"
                   [] run_call.algo.type = BwdDataAlgo -> "input"
                   [] run_call.algo.type = BwdFilterAlgo -> "filter")
    /\ (size_call # NoCall /\ run_call # NoCall
          /\ size_call.algo.type = run_call.algo.type) =>
          size_call.descriptors = run_call.descriptors

C7_Witness ==
    /\ size_call # NoCall
    /\ run_call # NoCall
    /\ size_call.algo = ConvolutionAlgo(BwdDataAlgo, 2)
    /\ run_call.algo = ConvolutionAlgo(BwdDataAlgo, 2)
    /\ run_call.descriptors = << "filter", "output", "convolution", "input" >>
    /\ run_call.ok

(***************************************************************************)
(* Claims about CreateConvolution and the ownership of native handles.     *)
(***************************************************************************)
Holders(id) == { o \in Owners : owners[o] = id }

MemberOwners == { ConvolutionMembers[k] : k \in 1 .. Len(ConvolutionMembers) }

MemberNatives == { owners[o] : o \in MemberOwners }

DestroyCallOfKind(kind) ==
    CASE kind = HandleKind -> "cudnnDestroy"
      [] kind = TensorKind -> "cudnnDestroyTensorDescriptor"
      [] kind = FilterKind -> "cudnnDestroyFilterDescriptor"
      [] kind = ConvolutionKind -> "cudnnDestroyConvolutionDescriptor"
      [] kind = MemoryKind -> "cudaFree"

\* C8: when CreateConvolution returns an error, whichever step failed, no
\* descriptor or buffer it created is live and the allocated-bytes ledger
\* is what it was before the call; when it returns a Convolution, exactly
\* four descriptors and three buffers it created are live, each owned by one
\* member of the Convolution, and no local of the function owns anything.
C8_CreateConvolutionAtomic ==
    (create.pc = "returned" /\ ~aborted) =>
        /\ \A o \in Owners \ ({"handle"} \cup MemberOwners) : owners[o] = Null
        /\ create.status = "error" =>
              /\ LiveNatives(World) = create.live_at_entry
              /\ allocated_bytes = create.allocated_at_entry
              /\ MemberNatives = {Null}
        /\ create.status = "ok" =>
              LET made == LiveNatives(World) \ create.live_at_entry IN
              /\ made = MemberNatives
              /\ Cardinality(made) = 7
              /\ Cardinality({ id \in made : natives[id].kind \in
                                  {TensorKind, FilterKind, ConvolutionKind} }) = 4
              /\ Cardinality({ id \in made : natives[id].kind = MemoryKind }) = 3
              /\ allocated_bytes = create.allocated_at_entry
                    + natives[owners["Convolution.input_data"]].bytes
                    + natives[owners["Convolution.filter_data"]].bytes
                    + natives[owners["Convolution.output_data"]].bytes

C8_Witness ==
    /\ create.pc = "returned"
    /\ ~aborted
    /\ create.status = "error"
    /\ create.allocated_at_entry > 0
    /\ create.live_at_entry # {}
    /\ Cardinality({ id \in 1 .. Len(natives) :
                        natives[id].kind = MemoryKind /\ natives[id].bytes > 0
                           /\ ~natives[id].live }) = 2
    /\ Cardinality({ id \in 1 .. Len(natives) :
                        natives[id].kind = TensorKind /\ ~natives[id].live }) = 2

\* C9: at every moment each native handle or descriptor that has been
\* created and not destroyed is held by exactly one owning variable, a
\* destroyed one is held by none and was destroyed exactly once, by the
\* destroy call of its own kind; once the caller's scope has ended none is
\* left live.
C9_SingleOwnerSingleRelease ==
    /\ \A o \in Owners :
          owners[o] # Null =>
             /\ owners[o] \in 1 .. Len(natives)
             /\ natives[owners[o]].kind = OwnerKind(o)
    /\ \A id \in 1 .. Len(natives) :
          natives[id].kind # MemoryKind =>
             /\ natives[id].released <= 1
             /\ natives[id].live =>
                   Cardinality(Holders(id)) = 1 /\ natives[id].released = 0
             /\ ~natives[id].live =>
                   /\ Holders(id) = {}
                   /\ natives[id].released = 1
                   /\ natives[id].released_by = DestroyCallOfKind(natives[id].kind)
    /\ (create.pc = "destroyed" /\ ~aborted) =>
          \A id \in 1 .. Len(natives) :
             natives[id].kind # MemoryKind => ~natives[id].live

C9_Witness ==
    /\ create.pc = "destroyed"
    /\ ~aborted
    /\ create.status = "ok"
    /\ Len(natives) = 8
    /\ \A id \in 1 .. Len(natives) :
          ~natives[id].live /\ natives[id].released = 1

(***************************************************************************)
(* C10: values produced by device work are read only after the device has  *)
(* been waited for.  Every element the host reads in GetTensorDebugString  *)
(* (the copied buffer and, for 16-bit data, the buffer the device converts *)
(* into) and the temporary buffer TransformTensor consumes in              *)
(* ConvertAndTransformTensor are read when no work writing that buffer is  *)
(* pending: a device-wide synchronization or a blocking copy lies between  *)
(* the issue of the producing work and the read.                           *)
(***************************************************************************)
SynchronizedReads ==
    { e \in events : e.kind \in {"host", "copy"} \/ e.buffer = "temp_data" }

C10_SynchronizedBeforeRead ==
    /\ \A e \in SynchronizedReads : ~e.pending_writer
    /\ (transfer.pc = "returned" /\ transfer.fn = "GetTensorDebugString"
           /\ transfer.data_type = "CUDNN_DATA_HALF" /\ transfer.status = "ok"
           /\ \E e \in events : e.buffer = "host_ptr")
          => ~PendingWriter(device_queue, "host_ptr")

\* The 16-bit print path and the converting path have both read a buffer
\* whose producing work was still pending when the wait began.
C10_Witness ==
    /\ \E e \in events :
          e.kind = "host" /\ e.buffer = "host_ptr" /\ e.waited /\ ~e.pending_writer
    /\ \E e \in events :
          e.kind = "device" /\ e.buffer = "temp_data" /\ e.waited
             /\ ~e.pending_writer
    /\ \E e \in events : e.kind = "copy" /\ e.waited

(***************************************************************************)
(* C11 as stated: every tensor built by CreateTensorDescriptor from a      *)
(* config without explicit strides, of any rank and any accepted format,   *)
(* has stride[i] equal to the product of dimensions[i+1 .. rank-1], the    *)
(* last axis having stride 1.                                              *)
(***************************************************************************)
RECURSIVE ProductOf(_, _, _)
ProductOf(seq, from, to) ==
    IF from > to THEN 1 ELSE seq[from] * ProductOf(seq, from + 1, to)

IsPacked(d) ==
    \A i \in 1 .. d.rank :
        d.strides[i] = ProductOf(d.dimensions, i + 1, d.rank)

BuiltTensors ==
    { descs[slot] : slot \in { o \in Slots : descs[o].kind = "tensor" } }

C11_PackedStrideLawAnyFormat ==
    \A d \in BuiltTensors : d.config.stride = << >> => IsPacked(d)

(***************************************************************************)
(* C11 as amended: every tensor built by CreateTensorDescriptor from a     *)
(* config without explicit strides and with the NCHW format, of any rank,  *)
(* has stride[i] equal to the product of dimensions[i+1 .. rank-1], the    *)
(* last axis having stride 1.                                              *)
(***************************************************************************)
C11_PackedStrideLaw ==
    \A d \in BuiltTensors :
        (d.config.stride = << >> /\ d.config.format = TENSOR_NCHW) => IsPacked(d)

\* A tensor of rank other than 4 built from NCHW with an axis larger than 1
\* in front of the last one.
C11_Witness ==
    \E d \in BuiltTensors :
        /\ d.config.stride = << >>
        /\ d.config.format = TENSOR_NCHW
        /\ d.rank = 3
        /\ d.dimensions[2] > 1 /\ d.dimensions[3] > 1

(***************************************************************************)
(* C12: CreateTensorDescriptor accepts a config only when exactly one of   *)
(* explicit strides and a named format is present; given both or neither   *)
(* it produces no descriptor and the failure is visible: the call does not *)
(* return and the process is ended by the failed check.                    *)
(***************************************************************************)
ExactlyOneOfStridesAndFormat(config) ==
    (Len(config.stride) # 0) # (config.format # Unset)

C12_StridesXorFormat ==
    build.fn = "CreateTensorDescriptor" =>
        /\ build.status = "ok" => ExactlyOneOfStridesAndFormat(build.config)
        /\ ~ExactlyOneOfStridesAndFormat(build.config) =>
              /\ build.status = "aborted"
              /\ aborted
              /\ descs[build.slot] = NoDescriptor

\* A config that carries both strides and a format, with its element kind
\* set and as many strides as dimensions, has been rejected.
C12_Witness ==
    /\ build.fn = "CreateTensorDescriptor"
    /\ build.config.data_type # Unset
    /\ Len(build.config.stride) = Len(build.config.dimension)
    /\ build.config.format # Unset
    /\ build.status = "aborted"
    /\ descs[build.slot] = NoDescriptor

(***************************************************************************)
(* C14: CreateConvolutionDescriptor builds a descriptor of rank            *)
(* R = max(len(pad), len(stride), len(dilation)); every entry the config   *)
(* gives stays at its position, every missing trailing entry is 0 for pad, *)
(* 1 for stride and 1 for dilation, so the three lists have length R; the  *)
(* caller's config record is as it was passed.                             *)
(***************************************************************************)
KeepsGivenAndDefaults(built, given, rank, default) ==
    /\ Len(built) = rank
    /\ \A k \in 1 .. rank :
          built[k] = IF k <= Len(given) THEN given[k] ELSE default

LongestOf(a, b, c) ==
    CHOOSE n \in {Len(a), Len(b), Len(c)} :
        \A m \in {Len(a), Len(b), Len(c)} : m <= n

C14_ConvolutionListsPadded ==
    build.fn = "CreateConvolutionDescriptor" =>
        /\ build.config = build.passed
        /\ build.status = "ok" =>
              LET d == descs[build.slot]
                  given == build.passed
                  R == LongestOf(given.pad, given.filter_stride, given.dilation)
              IN /\ d.kind = "convolution"
                 /\ d.rank = R
                 /\ KeepsGivenAndDefaults(d.pad, given.pad, R, 0)
                 /\ KeepsGivenAndDefaults(d.stride, given.filter_stride, R, 1)
                 /\ KeepsGivenAndDefaults(d.dilation, given.dilation, R, 1)

\* A built descriptor whose config gave two dilations, one pad and no
\* stride.
C14_Witness ==
    /\ build.fn = "CreateConvolutionDescriptor"
    /\ build.status = "ok"
    /\ Len(build.passed.dilation) = 2
    /\ Len(build.passed.pad) = 1
    /\ Len(build.passed.filter_stride) = 0
    /\ descs[build.slot].rank = 2

(***************************************************************************)
(* C13 as stated: each of the four build operations yields, for every      *)
(* config and every engine response, either a fully populated descriptor   *)
(* or a structured error value returned to the caller; no path returns a   *)
(* descriptor whose native handle was created but whose populate call      *)
(* failed or was skipped.                                                  *)
(***************************************************************************)
BuildReturnedPopulated ==
    /\ descs[build.slot].kind \in {"tensor", "filter", "convolution"}
    /\ descs[build.slot].populated
    /\ build.failing = "none"

EntryOrZero(list, k) == IF k <= Len(list) THEN list[k] ELSE 0

C15_PackedOutputFormula ==
    (build.fn = "CreateOutputDescriptor" /\ build.path = "Nd"
       /\ build.status = "ok") =>
        LET d == descs[build.slot]
            input == build.input
        IN /\ d.kind = "tensor"
           /\ d.rank = input.rank
           /\ d.data_type = input.data_type
           /\ d.dimensions[1] = input.dimensions[1]
           /\ d.dimensions[2] = build.filter.dimensions[1]
           /\ \A i \in 3 .. d.rank :
                 d.dimensions[i] =
                    input.dimensions[i]
                       + 2 * EntryOrZero(build.convolution.pad, i - 2)
                       - EntryOrZero(build.filter.dimensions, i) + 1
           /\ IsPacked(d)

\* A 1-D convolution with padding: input extent 4, kernel 3, pad 1 gives
\* extent 4, with two output channels.
C15_Witness ==
    /\ build.fn = "CreateOutputDescriptor"
    /\ build.path = "Nd"
    /\ build.status = "ok"
    /\ build.input.dimensions = << 2, 1, 4 >>
    /\ build.filter.dimensions = << 2, 1, 3 >>
    /\ build.convolution.pad = << 1 >>
    /\ descs[build.slot].dimensions = << 2, 2, 4 >>
    /\ descs[build.slot].strides = << 8, 4, 1 >>

(***************************************************************************)
(* C16: off the 4-D path CreateOutputDescriptor fails and produces no      *)
(* descriptor whenever a stride is not 1, a dilation is not 1, the group   *)
(* count is not 1 or the requested format is not NCHW; the failure is the  *)
(* error return or the failed check of that condition, unless the create   *)
(* call had already been refused.                                          *)
(***************************************************************************)
UnsupportedOffThe4dPath ==
    \/ build.format # TENSOR_NCHW
    \/ ~AllOnes(build.convolution.stride, build.convolution.rank)
    \/ ~AllOnes(build.convolution.dilation, build.convolution.rank)
    \/ build.convolution.group_count # 1

C16_UnsupportedRejected ==
    (build.fn = "CreateOutputDescriptor" /\ build.path = "Nd"
       /\ UnsupportedOffThe4dPath) =>
        /\ build.status \in {"error", "aborted"}
        /\ descs[build.slot] = NoDescriptor
        /\ build.failing = "none" =>
              build.stop \in {"error_format", "check_filter_format",
                              "check_dilation", "check_stride",
                              "check_group_count"}
        /\ (build.failing = "none" /\ build.format # TENSOR_NCHW) =>
              build.status = "error" /\ build.stop = "error_format"

\* A stride of 2 on an otherwise supported 1-D convolution ended the
\* process at the stride check.
C16_Witness ==
    /\ build.fn = "CreateOutputDescriptor"
    /\ build.path = "Nd"
    /\ build.format = TENSOR_NCHW
    /\ build.filter.format = TENSOR_NCHW
    /\ build.convolution.stride = << 2 >>
    /\ build.failing = "none"
    /\ build.stop = "check_stride"
    /\ build.status = "aborted"
    /\ descs[build.slot] = NoDescriptor

(***************************************************************************)
(* C17: for inputs [N,C,H,W], filters [F,C,kH,kW] and pads [pH,pW] with    *)
(* stride = dilation = 1 and group = 1, the packed-path computation        *)
(* (N, F, H+2pH-kH+1, W+2pW-kW+1) gives the dimensions the 4-D path's      *)
(* closed form gives; input [1,1,4,4], filter [1,1,3,3], pad [0,0] gives   *)
(* [1,1,2,2].                                                              *)
(***************************************************************************)
PackedPathDimensions ==
    OutputDimensions(GetTensorDescriptorData(build.input, 0),
                     GetFilterDescriptorData(build.filter),
                     GetConvolutionDescriptorData(build.convolution))

C17_PackedMatchesClosedForm ==
    (build.fn = "CreateOutputDescriptor" /\ build.path = "4d"
       /\ build.status = "ok"
       /\ AllOnes(build.convolution.stride, 2)
       /\ AllOnes(build.convolution.dilation, 2)
       /\ build.convolution.group_count = 1) =>
        /\ descs[build.slot].dimensions = PackedPathDimensions
        /\ PackedPathDimensions =
              << build.input.dimensions[1], build.filter.dimensions[1],
                 build.input.dimensions[3] + 2 * build.convolution.pad[1]
                    - build.filter.dimensions[3] + 1,
                 build.input.dimensions[4] + 2 * build.convolution.pad[2]
                    - build.filter.dimensions[4] + 1 >>
        /\ (/\ build.input.dimensions = << 1, 1, 4, 4 >>
            /\ build.filter.dimensions = << 1, 1, 3, 3 >>
            /\ build.convolution.pad = << 0, 0 >>) =>
              descs[build.slot].dimensions = << 1, 1, 2, 2 >>

C17_Witness ==
    /\ build.fn = "CreateOutputDescriptor"
    /\ build.path = "4d"
    /\ build.status = "ok"
    /\ build.input.dimensions = << 1, 1, 4, 4 >>
    /\ build.filter.dimensions = << 1, 1, 3, 3 >>
    /\ build.convolution.pad = << 0, 0 >>
    /\ AllOnes(build.convolution.stride, 2)
    /\ AllOnes(build.convolution.dilation, 2)
    /\ build.convolution.group_count = 1
    /\ descs[build.slot].dimensions = << 1, 1, 2, 2 >>

(***************************************************************************)
(* C18: two descriptors built from the same config have distinct handles   *)
(* and compare equal under TensorDescriptorEqual, FilterDescriptorEqual    *)
(* and ConvolutionDescriptorEqual; each equality is reflexive and          *)
(* symmetric, depends only on the compared fields over the first rank      *)
(* entries (whatever the array entries past rank hold), and is false when  *)
(* a compared field differs.                                               *)
(***************************************************************************)
ComparedFields(d) ==
    CASE d.kind = "tensor" ->
            << d.data_type, d.rank, d.dimensions, d.strides >>
      [] d.kind = "filter" ->
            << d.data_type, d.format, d.rank, d.dimensions >>
      [] d.kind = "convolution" ->
            << d.convolution_mode, d.compute_type, d.rank, d.pad, d.stride,
               d.dilation >>

EqualOf(left, right, garbage_left, garbage_right) ==
    CASE left.kind = "tensor" ->
            TensorDescriptorDataEqual(
               GetTensorDescriptorData(left, garbage_left),
               GetTensorDescriptorData(right, garbage_right))
      [] left.kind = "filter" ->
            FilterDescriptorDataEqual(GetFilterDescriptorData(left),
                                      GetFilterDescriptorData(right))
      [] left.kind = "convolution" ->
            ConvolutionDescriptorDataEqual(
               GetConvolutionDescriptorData(left),
               GetConvolutionDescriptorData(right))

C18_StructuralEquality ==
    (equal_call.fn # "none" /\ equal_call.status = "ok") =>
        LET left == descs[equal_call.left]
            right == descs[equal_call.right]
        IN /\ equal_call.result = (ComparedFields(left) = ComparedFields(right))
           /\ equal_call.left = equal_call.right => equal_call.result
           /\ \A garbage_left \in Garbage, garbage_right \in Garbage :
                 /\ EqualOf(right, left, garbage_left, garbage_right)
                       = equal_call.result
                 /\ EqualOf(left, right, garbage_left, garbage_right)
                       = equal_call.result
           /\ (equal_call.left # equal_call.right
                  /\ left.config = right.config) =>
                 equal_call.result /\ left.id # right.id

\* Two rank-2 tensors built from one config, read back into records whose
\* entries past rank differ, compared equal.
C18_Witness ==
    /\ equal_call.fn = "TensorDescriptorEqual"
    /\ equal_call.status = "ok"
    /\ equal_call.left = "left"
    /\ equal_call.right = "right"
    /\ equal_call.garbage = << 0, 7 >>
    /\ descs["left"].config = descs["right"].config
    /\ descs["left"].rank = 2
    /\ descs["left"].id # descs["right"].id
    /\ equal_call.result

(***************************************************************************)
(* C19: two convolution descriptors are equal under                        *)
(* ConvolutionDescriptorEqual iff the summaries read back for them (rank,  *)
(* pad, stride, dilation, convolution mode, compute kind, math type and    *)
(* group count) match field for field.                                     *)
(***************************************************************************)
C19_EqualIffSummariesMatch ==
    (equal_call.fn = "ConvolutionDescriptorEqual"
       /\ equal_call.status = "ok") =>
        equal_call.result =
           (GetConvolutionDescriptorData(descs[equal_call.left])
              = GetConvolutionDescriptorData(descs[equal_call.right]))

(***************************************************************************)
(* C20: ValidateDeviceMemoryLimit sets the limit to m * 2^20 bytes for a   *)
(* flag m >= 0 and to free - |m| * 2^20 for m < 0; it aborts and sets no   *)
(* limit when free < |m| * 2^20 or the device index is not below the       *)
(* device count; an established limit satisfies 0 <= limit <= free; and    *)
(* the shifted value is the exact product, the shift being done in the     *)
(* pointer-width integer and not in the flag's int.                        *)
(***************************************************************************)
FlagMegabytes(m) == Abs(m) * (2 ^ MegabyteShift)

C20_LimitFromFlag ==
    last_call.fn = "ValidateDeviceMemoryLimit" =>
        LET m == last_call.device_memory_limit_mb
            free == last_call.free_bytes
        IN /\ (last_call.status = "aborted") =
                 (free < FlagMegabytes(m) \/ last_call.device_id >= DeviceCount)
           /\ last_call.status = "aborted" =>
                 /\ aborted
                 /\ device_memory_limit_bytes = last_call.before
           /\ last_call.status = "ok" =>
                 /\ ~aborted
                 /\ device_memory_limit_bytes = last_call.limit
                 /\ m >= 0 => last_call.limit = m * (2 ^ MegabyteShift)
                 /\ m < 0 => last_call.limit = free - FlagMegabytes(m)
                 /\ last_call.limit \in 0 .. free
           /\ LimitBytes(m) = m * (2 ^ MegabyteShift)

\* A negative flag on a device with an allocation outstanding: the limit is
\* what is free less one megabyte.
C20_Witness ==
    /\ last_call.fn = "ValidateDeviceMemoryLimit"
    /\ last_call.status = "ok"
    /\ last_call.device_memory_limit_mb = 0 - 1
    /\ last_call.free_bytes < DeviceTotalBytes
    /\ last_call.limit = last_call.free_bytes - 2 ^ MegabyteShift
    /\ last_call.limit > 0

C22_SameKindIsFatal ==
    data_call.fn = "ConvertDeviceDataVisitor" =>
        /\ data_call.fatal = (data_call.src_type = data_call.dst_type)
        /\ data_call.fatal => aborted /\ data_call.written = << >>
        /\ ~data_call.fatal =>
              /\ ~aborted
              /\ Len(data_call.written) =
                    data_call.dst_size_in_bytes \div
                       (CASE data_call.dst_type = "CUDNN_DATA_HALF" -> 2
                          [] data_call.dst_type = "CUDNN_DATA_FLOAT" -> 4
                          [] data_call.dst_type = "CUDNN_DATA_DOUBLE" -> 8)
              /\ \A k \in 1 .. Len(data_call.written) :
                    data_call.written[k] = data_call.scale * k

\* Eight bytes of 16-bit floats written from 64-bit ones, scaled by 2.
C22_Witness ==
    /\ data_call.fn = "ConvertDeviceDataVisitor"
    /\ data_call.dst_type = "CUDNN_DATA_HALF"
    /\ data_call.src_type = "CUDNN_DATA_DOUBLE"
    /\ data_call.dst_size_in_bytes = 8
    /\ data_call.scale = 2
    /\ data_call.written = << 2, 4, 6, 8 >>

(***************************************************************************)
(* C23 as stated: GetTensorNumElements returns 1 + the sum over the axes   *)
(* of (dim[i] - 1) * stride[i], not the product of the dimensions; for     *)
(* every fully packed tensor with positive dimensions the two coincide,    *)
(* and for every tensor with a zero or a gapped stride they differ.        *)
(***************************************************************************)
RECURSIVE SpanSum(_, _, _)
SpanSum(dims, strides, i) ==
    IF i > Len(dims) THEN 0
    ELSE (dims[i] - 1) * strides[i] + SpanSum(dims, strides, i + 1)

PackedStrideOf(dims, i) == ProductOf(dims, i + 1, Len(dims))

ProductOfDimensions(tensor) == ProductOf(tensor.dimensions, 1, tensor.rank)

CountedCall ==
    data_call.fn = "GetTensorNumElements" /\ data_call.failing = "none"

SpanReturned ==
    CountedCall =>
        data_call.result =
           1 + SpanSum(data_call.tensor.dimensions, data_call.tensor.strides, 1)

PackedCoincide ==
    (CountedCall
       /\ \A i \in 1 .. data_call.tensor.rank :
             data_call.tensor.strides[i] =
                PackedStrideOf(data_call.tensor.dimensions, i)) =>
        data_call.result = ProductOfDimensions(data_call.tensor)

HasZeroOrGappedStride(tensor) ==
    \E i \in 1 .. tensor.rank :
        \/ tensor.strides[i] = 0
        \/ tensor.strides[i] > PackedStrideOf(tensor.dimensions, i)

C23_SpanDiffersWheneverNotPacked ==
    /\ SpanReturned
    /\ PackedCoincide
    /\ (CountedCall /\ HasZeroOrGappedStride(data_call.tensor)) =>
          data_call.result # ProductOfDimensions(data_call.tensor)

(***************************************************************************)
(* C23 as amended: GetTensorNumElements returns 1 + the sum over the axes  *)
(* of (dim[i] - 1) * stride[i], not the product of the dimensions; for     *)
(* every fully packed tensor with positive dimensions the two coincide,    *)
(* and they differ for a tensor that is fully packed except for one axis   *)
(* of extent above 1 whose stride is zero or larger than its packed        *)
(* stride.                                                                 *)
(***************************************************************************)
OneAxisZeroOrGapped(tensor) ==
    \E i \in 1 .. tensor.rank :
        /\ tensor.dimensions[i] > 1
        /\ \/ tensor.strides[i] = 0
           \/ tensor.strides[i] > PackedStrideOf(tensor.dimensions, i)
        /\ \A j \in (1 .. tensor.rank) \ {i} :
              tensor.strides[j] = PackedStrideOf(tensor.dimensions, j)

C23_SpanNotProduct ==
    /\ SpanReturned
    /\ PackedCoincide
    /\ (CountedCall /\ OneAxisZeroOrGapped(data_call.tensor)) =>
          data_call.result # ProductOfDimensions(data_call.tensor)

\* A [2, 2] tensor whose first axis is broadcast: span 2, product 4.
C23_Witness ==
    /\ CountedCall
    /\ data_call.tensor.dimensions = << 2, 2 >>
    /\ data_call.tensor.strides = << 0, 1 >>
    /\ data_call.result = 2

(***************************************************************************)
(* C24: every descriptor the builders produce has rank <= CUDNN_DIM_MAX,   *)
(* positive dimensions and, with explicit strides, as many strides as      *)
(* axes; the packed-stride derivation and the non-4-D output-dimension     *)
(* computation never write an index >= CUDNN_DIM_MAX into their            *)
(* fixed-size arrays; and the non-4-D output path never yields a           *)
(* non-positive output dimension.                                          *)
(***************************************************************************)
ProducedDescriptorsValid ==
    \A slot \in Slots :
        LET d == descs[slot] IN
        d.kind \in {"tensor", "filter"} =>
            /\ d.rank <= CUDNN_DIM_MAX
            /\ Len(d.dimensions) = d.rank
            /\ AllPositive(d.dimensions)
            /\ d.kind = "tensor" => Len(d.strides) = d.rank

WritesWithinArrays ==
    build.fn \in {"CreateTensorDescriptor", "CreateOutputDescriptor"} =>
        \A i \in build.written : i < CUDNN_DIM_MAX

C24_BuilderInvariants ==
    /\ ProducedDescriptorsValid
    /\ WritesWithinArrays

(***************************************************************************)
(* C25: CreateConvolutionDescriptor calls the engine's set-group-count     *)
(* exactly when the config's group count is greater than 0, so it never    *)
(* hands the engine a group count of 0 and a descriptor built without the  *)
(* call keeps the engine's default of 1; it sets the math mode on every    *)
(* build, with the config's math type.                                     *)
(***************************************************************************)
ConvolutionBuilt ==
    /\ build.fn = "CreateConvolutionDescriptor"
    /\ build.status = "ok"

C25_GroupCountOnlyWhenPositive ==
    build.fn = "CreateConvolutionDescriptor" =>
        /\ "group" \in build.calls => build.passed.group_count > 0
        /\ build.status = "ok" =>
              /\ "group" \in build.calls <=> build.passed.group_count > 0
              /\ "math" \in build.calls
              /\ descs[build.slot].math_type = build.passed.math_type
              /\ descs[build.slot].group_count # 0
              /\ descs[build.slot].group_count =
                    IF build.passed.group_count > 0
                    THEN build.passed.group_count ELSE 1

C25_Witness ==
    /\ ConvolutionBuilt
    /\ build.passed.group_count = 0
    /\ "group" \notin build.calls
    /\ "math" \in build.calls
    /\ descs[build.slot].group_count = 1

(***************************************************************************)
(* C26: FindConvolutionAlgo allocates a workspace of exactly               *)
(* workspace_limit bytes before any engine call; when the allocation fails *)
(* it returns that error without calling the engine; and it releases the   *)
(* workspace on every return path (success, engine error, no supported     *)
(* algorithm, unsupported direction), so the allocated-bytes ledger after  *)
(* the call equals the ledger before it.                                   *)
(***************************************************************************)
FindNoEngineCallYet ==
    /\ find.entry = "none"
    /\ find.engine_status = "none"

C26_WorkspaceReleasedOnEveryReturn ==
    /\ find.pc = "switch" =>
          /\ find.workspace = find.workspace_limit
          /\ allocated_bytes = find.before + find.workspace_limit
          /\ FindNoEngineCallYet
    /\ find.pc = "returned" =>
          /\ find.workspace = NoBuffer
          /\ allocated_bytes = find.before
          /\ find.error = "allocation failed" =>
                FindNoEngineCallYet /\ ~find.ok
          /\ find.entry # "none" => find.error # "allocation failed"

C26_Witness ==
    /\ find.pc = "returned"
    /\ find.entry # "none"
    /\ find.error = "cuDNN error"
    /\ find.workspace_limit > 0
    /\ find.before > 0
    /\ allocated_bytes = find.before

(***************************************************************************)
(* C27: ConvertAndTransformTensor never reaches the fatal same-kind        *)
(* conversion.  With equal kinds it calls TransformTensor(alpha, beta) on  *)
(* the source and has no temporary buffer.  With different kinds it        *)
(* applies alpha once, as the scale of the conversion into a temporary     *)
(* buffer of the destination's kind with the source's dimensions and       *)
(* strides, and then transforms with 1 and the caller's beta.  Both paths  *)
(* leave alpha * src + beta * dst in the destination, and the temporary    *)
(* buffer is released on every return path.                                *)
(***************************************************************************)
TransformCall ==
    /\ data_call.fn = "ConvertAndTransformTensor"

TransformSameKind == data_call.src_type = data_call.dst_type

C27_BothPathsScaleOnce ==
    TransformCall =>
        /\ ~data_call.visit.fatal
        /\ TransformSameKind =>
              /\ ~data_call.has_temp
              /\ ~data_call.visited
              /\ data_call.temp_desc = NoTemp
              /\ data_call.ledger_peak = data_call.ledger_before
              /\ data_call.transform =
                    [alpha |-> data_call.alpha, beta |-> data_call.beta,
                     src |-> "src_data"]
        /\ ~TransformSameKind /\ data_call.has_temp =>
              /\ data_call.temp_desc.data_type = data_call.dst_type
              /\ data_call.temp_desc.rank = data_call.src.rank
              /\ data_call.temp_desc.dimensions = data_call.src.dimensions
              /\ data_call.temp_desc.strides = data_call.src.strides
              /\ data_call.ledger_peak =
                    data_call.ledger_before + data_call.temp_desc.size
        /\ ~TransformSameKind /\ data_call.visited =>
              /\ data_call.visit.scale = data_call.alpha
              /\ data_call.visit.num_elements = Len(data_call.src_values)
        /\ ~TransformSameKind /\ data_call.transform.src # "none" =>
              data_call.transform =
                 [alpha |-> 1, beta |-> data_call.beta, src |-> "temp_data"]
        /\ data_call.status = "ok" =>
              /\ data_call.transform.src # "none"
              /\ \A k \in DOMAIN data_call.dst_before :
                    data_call.dst_after[k] =
                       data_call.alpha * data_call.src_values[k]
                          + data_call.beta * data_call.dst_before[k]
        /\ data_call.status \in {"ok", "error"} =>
              allocated_bytes = data_call.ledger_before

C27_Witness ==
    /\ TransformCall
    /\ ~TransformSameKind
    /\ data_call.status = "ok"
    /\ data_call.alpha = 2
    /\ data_call.beta = 2
    /\ data_call.has_temp
    /\ data_call.ledger_peak > data_call.ledger_before
    /\ allocated_bytes = data_call.ledger_before
    /\ data_call.transform.src = "temp_data"
    /\ Len(data_call.dst_after) = 4

=============================================================================
